---- MODULE Spec2Model ----
(***************************************************************************)
(* Perception core of the smart-mirror backend: the remote landmark        *)
(* client (backend/cloud_vision.py), the single-slot asynchronous use of   *)
(* it by the processing loop and the latency governor                      *)
(* (backend/vision_pipeline.py).                                           *)
(*                                                                         *)
(* Time is the wall clock in milliseconds: time.time() (seconds, float)    *)
(* and time.time_ns() (nanoseconds) read the same clock and are both       *)
(* modelled by the variable now.                                           *)
(***************************************************************************)
EXTENDS Integers, Sequences, FiniteSets, TLC

(***************************************************************************)
(* Program constants of CloudVisionClient, in milliseconds.                *)
(***************************************************************************)
CACHE_TTL_MS == 10000

CACHE_MAX == 32

BREAKER_OPEN_MS == 10000

FAILURE_THRESHOLD == 3

RATE_WINDOW_MS == 1000

(* detect_faces: the retry loop runs once per delay of its tuple *)
MAX_ATTEMPTS == 4

RetryDelaysFive == <<0, 200, 400, 800, 800>>

RetryDelays == <<0, 200, 400, 800>>

LIGHTING_BUCKET_WIDTH == 20

DEFAULT_RPS == 2

DEFAULT_MIN_INTERVAL_MS == 600

(* SettingsPayload.cloud_rps: the largest rate the settings endpoint accepts *)
FILL_RPS == 10

(* SettingsState.aruco_stride *)
DEFAULT_ARUCO_STRIDE == 2

(* camera_width the application constructs the pipeline with *)
APP_CAMERA_WIDTH == 1280

(* _adapt_performance: relax only more than this long after the last adaptation *)
RELAX_AFTER_MS == 3000

(* _adapt_performance: relax only when the latency is below this *)
RELAX_BELOW_MS == 180

(***************************************************************************)
(* Bounds of the model.                                                    *)
(***************************************************************************)
StartTime == 100

MaxTime == 16000

MaxCalls == 4

(* accepted calls explored after the cache has been filled *)
MaxCacheCalls == 2

MaxLimiterTime == 2600

(* detect_faces jobs the pipeline may submit *)
MaxJobs == 3

(* horizon of the governor runs *)
MaxGovTime == 4700

(* camera widths the repository constructs pipelines with (application, tests) *)
CameraWidths == {320, APP_CAMERA_WIDTH}

(* values of settings.aruco_stride (the settings endpoint clamps it to 1..8):
   below, at and above the governor's own floor of 2 *)
ArucoStrides == {1, 2, 5}

(* latencies of a cycle, around every threshold of the governor *)
Latencies == {100, 179, 180, 300, 301, 600, 601, 1200, 1201}

(* wall-clock lengths of a cycle; a cycle lasts at least its latency *)
CycleTimes == {200, 1000, 1400}

MaxRps == 2

MinIntervals == {0, 600}

Rtts == {0}

LimiterTicks == {100, 500, 1000}

VARIABLES
    now,                   \* wall clock, ms
    enabled,               \* CloudVisionClient.enabled
    rps,                   \* CloudVisionClient.rps
    min_interval_ms,       \* CloudVisionClient.min_interval_ms
    ok_count,              \* CloudVisionClient.ok_count
    fail_count,            \* CloudVisionClient.fail_count
    breaker_open,          \* CloudVisionClient.breaker_open
    consecutive_failures,  \* CloudVisionClient._consecutive_failures
    breaker_until_ns,      \* CloudVisionClient._breaker_until_ns (ms here)
    call_times,            \* CloudVisionClient._call_times (deque, oldest first)
    last_call_ns,          \* CloudVisionClient._last_call_ns (ms here, 0 = never)
    cache,                 \* CloudVisionClient._cache (OrderedDict, oldest first)
    pc,                    \* position of the one detect_faces call: "idle" / "net"
    attempt,               \* index into RetryDelays of the next network attempt
    call_key,              \* cache_key of the call in progress
    call_face,             \* whether the image of the call in progress shows a face
    call_attempts,         \* network attempts made by the latest call
    ev,                    \* the latest operation and what it returned
    opened_at,             \* history: when _register_failure last opened the breaker
    fail_streak,           \* history: accepted calls that failed since the last success
    accepted,              \* history: times of the reservations accepted by the limiter driver
    accepted_calls,        \* history: number of detect_faces calls that reached the network
    lru,                   \* history: keys of the cache, least recently used first
    running,               \* VisionPipeline._running
    stop_event,            \* VisionPipeline._stop_event
    loop_pc,               \* position of the processing-loop thread (_run)
    stop_pc,               \* position of the thread that calls stop()
    cloud_executor,        \* VisionPipeline._cloud_executor is not None
    executor_shutdown,     \* the executor has been shut down
    cloud_future,          \* VisionPipeline._cloud_future: a job number, 0 = None
    cloud_latest,          \* VisionPipeline._cloud_latest: "none" / "result"
    use_cloud,             \* settings.use_cloud
    job_state,             \* per submitted detect_faces job: where it is
    collected,             \* history: jobs whose future _resolve_cloud_future took
    face_frame_stride,     \* VisionPipeline._face_frame_stride
    aruco_frame_stride,    \* VisionPipeline._aruco_frame_stride
    face_target_w,         \* VisionPipeline._face_target_w
    perf_last_adapt_ns,    \* VisionPipeline._perf_last_adapt_ns (ms here)
    aruco_stride,          \* settings.aruco_stride
    camera_width,          \* camera_width given to the constructor
    latency_ms,            \* health.latency_ms: e2e latency of the latest cycle
    last_slow_ns,          \* history: when a cycle last had latency >= 180 ms (0 = never)
    gov_prev,              \* history: strides and width before the latest governor run
    aruco_last_state,      \* VisionPipeline._aruco_last_state: marker id -> reported state
    aruco_state_since,     \* VisionPipeline._aruco_state_since: marker id -> <<time>>, <<>> = no entry
    raw_last,              \* history: raw classification of each marker in the latest call
    raw_since,             \* history: since when the marker has been classified raw_last
    raw_hist,              \* history: the latest raw classifications of each marker, with their times
    guide_shapes,          \* history: kinds of the shapes the latest call built for each marker
    ema,                   \* VisionPipeline._ema: landmark key -> smoothed point, <<>> = no entry
    last_landmarks,        \* VisionPipeline._last_landmarks
    lm_ev,                 \* history: the latest landmark operation, its inputs and what it returned
    lm_steps,              \* history: blending and smoothing steps so far (worst case per key)
    smooth_run,            \* history: the key and point last given to _smooth directly, and how often in a row
    INTRINSICS_TRIED,      \* ar_overlay._INTRINSICS_TRIED
    INTRINSICS_OK,         \* ar_overlay._INTRINSICS_OK
    K,                     \* ar_overlay._K: "none" / "matrix"
    DIST,                  \* ar_overlay._DIST: "none" / "matrix"
    INTRINSICS_ERR,        \* ar_overlay._INTRINSICS_ERR
    file_reads,            \* history: how often the calibration file was opened
    intr_calls,            \* history: number of load_camera_intrinsics calls
    intr_ev,               \* history: what the latest load_camera_intrinsics call gave
    first_outcome,         \* history: what the first load_camera_intrinsics call gave
    prev_center,           \* ar_overlay._prev_center: marker id -> point, <<>> = no entry
    prev_angles,           \* ar_overlay._prev_angles: marker id -> angles, <<>> = no entry
    last_ts,               \* ar_overlay._last_ts (ms here)
    last_anchors,          \* ar_overlay._last_anchors
    pose_requested,        \* settings.pose, the pose_enabled argument
    aruco_available,       \* whether cv2.aruco can be imported
    last_seen,             \* history: marker ids of the latest detection that ran
    ar_calls,              \* history: number of detect_aruco_anchors calls
    ar_ev,                 \* history: the latest detect_aruco_anchors call and what it returned
    frame_count,           \* _run: frame_count, the cycles that got a frame
    last_overlay_ts_ms,    \* VisionPipeline._last_overlay_ts_ms
    no_face_since,         \* VisionPipeline._no_face_since: <<time>>, <<>> = None
    latency_window_frames, \* VisionPipeline._latency_window_frames
    period_ms,             \* how long one cycle of _run takes in this run
    sent,                  \* history: the latest two overlay.set messages given to broadcast_fn
    stall_hints,           \* history: hints sent in the first 2.1 s of the current run of cycles without landmarks
    prev_e2e_ms,           \* history: e2e_ms of the cycle before the latest
    tail_ev,              \* history: what the latest cycle did after building its message
    cam_state,             \* CameraCapture: "unbuilt", or how __init__ ended: "device" / "mock" / "raised"
    cam_mock,              \* CameraCapture.mock
    cam_last_error,        \* CameraCapture.last_error
    cam_capture,           \* CameraCapture._capture: "none" / "open" / "released"
    cam_stop_event,        \* CameraCapture._stop_event
    acq_pc,                \* position of the acquisition thread (CameraCapture._run), "none" = no thread
    acq_ts,                \* CameraCapture._run: timestamp_ns of the iteration
    frame_lock,            \* CameraCapture._frame_lock: "free" or its holder
    latest_frame,          \* CameraCapture._latest_frame: the stamp taken for the frame, 0 = None
    latest_ts,             \* CameraCapture._latest_ts, 0 = None
    reader_pc,             \* position of the thread that calls read()
    reader_frame,          \* CameraCapture.read: frame
    close_pc,              \* position of the thread that calls close()
    health_camera,         \* health_state.camera
    health_camera_error,   \* health_state.camera_error
    published,             \* history: frames published by the acquisition thread
    read_ev,               \* history: what the latest read() returned
    prev_read_ts,          \* history: the timestamp returned by the read() before the latest, 0 = none
    closes,                \* history: number of close() calls that returned
    close_ev,             \* history: the latest close() that returned, and what it left behind
    last_face_bbox,        \* VisionPipeline._last_face_bbox: <<x, y, w, h>>, <<>> = None
    known_face,            \* history: where the face was in the frame when it was last found
    roi_ev,               \* history: the latest cycle, its crop and what face detection did
    loops,                 \* the processing-loop threads (_run) that start() has created, each at its position
    thread,                \* VisionPipeline._thread: a loop thread, 0 = None
    caller_pc,             \* position of the thread that calls start() and stop()
    cams,                  \* the CameraCapture objects the pipeline has constructed
    camera,                \* VisionPipeline.camera: one of cams
    signaled,              \* history: per loop thread, stop() has set the stop event during its life
    late_cycles,           \* history: per loop thread, cycles begun after stop() had set the stop event
    stop_returns,          \* history: stop() calls that returned
    life_ev,              \* history: what the latest stop() that returned left behind
    cloud_job,             \* the detect_faces job behind VisionPipeline._cloud_future, with its image and outcome
    cloud_result,          \* VisionPipeline._cloud_latest with its timestamp (NoneResult = None)
    cycle_ev               \* history: what the latest processing cycle did with the remote result

clientVars == <<enabled, rps, min_interval_ms, ok_count, fail_count, breaker_open,
                consecutive_failures, breaker_until_ns, call_times, last_call_ns,
                cache, pc, attempt, call_key, call_face, call_attempts, opened_at,
                fail_streak, accepted_calls, lru>>

pipeVars == <<running, stop_event, loop_pc, stop_pc, cloud_executor, executor_shutdown,
              cloud_future, cloud_latest, use_cloud, job_state, collected>>

govVars == <<face_frame_stride, aruco_frame_stride, face_target_w, perf_last_adapt_ns,
             aruco_stride, camera_width, latency_ms, last_slow_ns, gov_prev>>

guideVars == <<aruco_last_state, aruco_state_since, raw_last, raw_since, raw_hist,
               guide_shapes>>

lmVars == <<ema, last_landmarks, lm_ev, lm_steps, smooth_run>>

intrVars == <<INTRINSICS_TRIED, INTRINSICS_OK, K, DIST, INTRINSICS_ERR, file_reads,
              intr_calls, intr_ev, first_outcome>>

arVars == <<prev_center, prev_angles, last_ts, last_anchors, pose_requested,
            aruco_available, last_seen, ar_calls, ar_ev>>

tailVars == <<frame_count, last_overlay_ts_ms, no_face_since, latency_window_frames,
              period_ms, sent, stall_hints, prev_e2e_ms, tail_ev>>

camVars == <<cam_state, cam_mock, cam_last_error, cam_capture, cam_stop_event, acq_pc,
             acq_ts, frame_lock, latest_frame, latest_ts, reader_pc, reader_frame,
             close_pc, health_camera, health_camera_error, published, read_ev,
             prev_read_ts, closes, close_ev>>

roiVars == <<last_face_bbox, known_face, roi_ev>>

lifeVars == <<loops, thread, caller_pc, cams, camera, signaled, late_cycles,
              stop_returns, life_ev>>

cloudVars == <<cloud_job, cloud_result, cycle_ev>>

(* everything the cloud client does not touch, but for the job it runs *)
sideVars == <<guideVars, lmVars, intrVars, arVars, tailVars, camVars, roiVars, lifeVars>>

restVars == <<sideVars, cloudVars>>

vars == <<now, clientVars, ev, accepted, pipeVars, govVars, restVars>>

(***************************************************************************)
(* Values.                                                                 *)
(***************************************************************************)
NoKey == <<0, 0>>

NoneResult == [isNone |-> TRUE, ok |-> FALSE, ts_ns |-> 0]

Result(ok, ts) == [isNone |-> FALSE, ok |-> ok, ts_ns |-> ts]

EmptyBytes == [kind |-> "empty", phash |-> 0, mean |-> 0, face |-> FALSE]

GarbageBytes == [kind |-> "garbage", phash |-> 0, mean |-> 0, face |-> FALSE]

Jpeg(phash, mean, face) == [kind |-> "jpeg", phash |-> phash, mean |-> mean, face |-> face]

JpegImages == {Jpeg(1, 10, TRUE), Jpeg(1, 19, TRUE), Jpeg(1, 30, FALSE)}

Images == {EmptyBytes, GarbageBytes} \cup JpegImages

(***************************************************************************)
(* ev: the latest operation, its argument, how it ended and what it        *)
(* returned.                                                               *)
(***************************************************************************)
Event(op, kind, ret, img) == [op |-> op, kind |-> kind, ret |-> ret, img |-> img]

(***************************************************************************)
(* _decode: no array for undecodable bytes.                                *)
(***************************************************************************)
Decodes(img) == img.kind = "jpeg"

(***************************************************************************)
(* _cache_key: perceptual hash and lighting bucket (mean // 20).           *)
(***************************************************************************)
CacheKey(img) == <<img.phash, img.mean \div LIGHTING_BUCKET_WIDTH>>

(***************************************************************************)
(* _reserve_slot_locked.                                                   *)
(***************************************************************************)
RECURSIVE PruneCallTimesEager(_, _)
PruneCallTimesEager(ct, t) ==
    IF Len(ct) > 0 /\ (t - Head(ct)) >= RATE_WINDOW_MS
    THEN PruneCallTimesEager(Tail(ct), t)
    ELSE ct

RECURSIVE PruneCallTimes(_, _)
PruneCallTimes(ct, t) ==
    IF Len(ct) > 0 /\ (t - Head(ct)) > RATE_WINDOW_MS
    THEN PruneCallTimes(Tail(ct), t)
    ELSE ct

ReserveSlotLockedOffByOne(ct, last, lim_rps, lim_interval, t) ==
    LET pruned == PruneCallTimes(ct, t) IN
    IF Len(pruned) > lim_rps
    THEN [ok |-> FALSE, call_times |-> pruned, last_call_ns |-> last]
    ELSE IF last # 0 /\ (t - last) < lim_interval
    THEN [ok |-> FALSE, call_times |-> pruned, last_call_ns |-> last]
    ELSE [ok |-> TRUE, call_times |-> Append(pruned, t), last_call_ns |-> t]

ReserveSlotLocked(ct, last, lim_rps, lim_interval, t) ==
    LET pruned == PruneCallTimes(ct, t) IN
    IF Len(pruned) >= lim_rps
    THEN [ok |-> FALSE, call_times |-> pruned, last_call_ns |-> last]
    ELSE IF last # 0 /\ (t - last) < lim_interval
    THEN [ok |-> FALSE, call_times |-> pruned, last_call_ns |-> last]
    ELSE [ok |-> TRUE, call_times |-> Append(pruned, t), last_call_ns |-> t]

(***************************************************************************)
(* The OrderedDict _cache as a sequence of [key, ts, res], oldest first.   *)
(***************************************************************************)
CacheIndex(c, key) ==
    IF \E i \in 1..Len(c) : c[i].key = key
    THEN CHOOSE i \in 1..Len(c) : c[i].key = key
    ELSE 0

SeqWithout(s, i) == [j \in 1..(Len(s) - 1) |-> IF j < i THEN s[j] ELSE s[j + 1]]

MoveToEnd(c, entry) ==
    LET i == CacheIndex(c, entry.key) IN
    IF i = 0 THEN Append(c, entry) ELSE Append(SeqWithout(c, i), entry)

RECURSIVE PopOldest(_)
PopOldest(c) == IF Len(c) > CACHE_MAX THEN PopOldest(Tail(c)) ELSE c

CacheStore(c, key, t, res) == PopOldest(MoveToEnd(c, [key |-> key, ts |-> t, res |-> res]))

CacheFreshStrict(c, key, t) ==
    LET i == CacheIndex(c, key) IN i # 0 /\ (t - c[i].ts) < CACHE_TTL_MS

CacheFresh(c, key, t) ==
    LET i == CacheIndex(c, key) IN i # 0 /\ (t - c[i].ts) <= CACHE_TTL_MS

CacheKeys(c) == {c[i].key : i \in 1..Len(c)}

(***************************************************************************)
(* History of uses: a store and a cache hit both use a key.                *)
(***************************************************************************)
KeyIndex(s, key) ==
    IF \E i \in 1..Len(s) : s[i] = key
    THEN CHOOSE i \in 1..Len(s) : s[i] = key
    ELSE 0

Touch(s, key) ==
    LET i == KeyIndex(s, key) IN
    IF i = 0 THEN Append(s, key) ELSE Append(SeqWithout(s, i), key)

Restrict(s, keys) == SelectSeq(s, LAMBDA k : k \in keys)

(***************************************************************************)
(* detect_faces up to the end of the second locked section: the input      *)
(* check, the breaker gate (with its reset after the cooldown), _decode,   *)
(* the cache lookup and the rate limiter.                                  *)
(***************************************************************************)
BreakerRefusesForever(t) == breaker_open

BreakerRefusesNever(t) == FALSE

BreakerRefuses(t) == breaker_open /\ t < breaker_until_ns

BreakerResets(t) == breaker_open /\ t >= breaker_until_ns

DetectFacesCall(img) ==
    /\ pc = "idle"
    /\ call_attempts' = 0
    /\ IF ~enabled \/ img = EmptyBytes
       THEN /\ ev' = Event("detect_faces", "no_input", NoneResult, img)
            /\ UNCHANGED <<breaker_open, consecutive_failures, call_times,
                           last_call_ns, pc, attempt, call_key, call_face, lru>>
       ELSE IF BreakerRefuses(now)
       THEN /\ ev' = Event("detect_faces", "breaker", NoneResult, img)
            /\ UNCHANGED <<breaker_open, consecutive_failures, call_times,
                           last_call_ns, pc, attempt, call_key, call_face, lru>>
       ELSE /\ breaker_open' = (IF BreakerResets(now) THEN FALSE ELSE breaker_open)
            /\ consecutive_failures' =
                   (IF BreakerResets(now) THEN 0 ELSE consecutive_failures)
            /\ IF ~Decodes(img)
               THEN /\ ev' = Event("detect_faces", "undecodable", NoneResult, img)
                    /\ UNCHANGED <<call_times, last_call_ns, pc, attempt,
                                   call_key, call_face, lru>>
               ELSE IF CacheFresh(cache, CacheKey(img), now)
               THEN /\ ev' = Event("detect_faces", "cached",
                                   cache[CacheIndex(cache, CacheKey(img))].res, img)
                    /\ lru' = Touch(lru, CacheKey(img))
                    /\ UNCHANGED <<call_times, last_call_ns, pc, attempt,
                                   call_key, call_face>>
               ELSE LET r == ReserveSlotLocked(call_times, last_call_ns, rps,
                                               min_interval_ms, now) IN
                    /\ r.ok => accepted_calls < MaxCalls
                    /\ call_times' = r.call_times
                    /\ last_call_ns' = r.last_call_ns
                    /\ lru' = lru
                    /\ IF r.ok
                       THEN /\ pc' = "net"
                            /\ attempt' = 1
                            /\ call_key' = CacheKey(img)
                            /\ call_face' = img.face
                            /\ ev' = Event("detect_faces", "accepted", NoneResult, img)
                       ELSE /\ ev' = Event("detect_faces", "rate_limited", NoneResult, img)
                            /\ UNCHANGED <<pc, attempt, call_key, call_face>>
    /\ accepted_calls' = (IF pc' = "net" THEN accepted_calls + 1 ELSE accepted_calls)
    /\ UNCHANGED <<now, enabled, rps, min_interval_ms, ok_count, fail_count,
                   breaker_until_ns, cache, opened_at, fail_streak, accepted>>
    /\ UNCHANGED <<pipeVars, govVars, sideVars>>

\* detect_faces called outside the pipeline
DetectFaces(img) == DetectFacesCall(img) /\ UNCHANGED cloudVars

(***************************************************************************)
(* _register_success and _register_failure, at the time t they run.        *)
(***************************************************************************)
RegisterSuccess(key, res, t) ==
    /\ consecutive_failures' = 0
    /\ breaker_open' = FALSE
    /\ ok_count' = (IF res.ok THEN ok_count + 1 ELSE ok_count)
    /\ cache' = CacheStore(cache, key, t, res)
    /\ lru' = Restrict(Touch(lru, key), CacheKeys(cache'))
    /\ fail_streak' = 0
    /\ UNCHANGED <<fail_count, breaker_until_ns, opened_at>>

RegisterFailure(t) ==
    /\ fail_count' = fail_count + 1
    /\ consecutive_failures' = consecutive_failures + 1
    /\ IF consecutive_failures + 1 >= FAILURE_THRESHOLD
       THEN /\ breaker_open' = TRUE
            /\ breaker_until_ns' = t + BREAKER_OPEN_MS
            /\ opened_at' = t
       ELSE UNCHANGED <<breaker_open, breaker_until_ns, opened_at>>
    /\ fail_streak' = (IF fail_streak < FAILURE_THRESHOLD + 1
                       THEN fail_streak + 1 ELSE fail_streak)
    /\ UNCHANGED <<ok_count, cache, lru>>

(***************************************************************************)
(* One pass of the retry loop of detect_faces: the sleep, the remote call  *)
(* (rtt ms) and what follows it.  A response parses to a positive or a     *)
(* negative result; the last failed attempt registers the failure.         *)
(***************************************************************************)
NetAttemptCall(responds, rtt) ==
    /\ pc = "net"
    /\ now + RetryDelays[attempt] + rtt <= MaxTime
    /\ now' = now + RetryDelays[attempt] + rtt
    /\ call_attempts' = call_attempts + 1
    /\ IF responds
       THEN /\ RegisterSuccess(call_key, Result(call_face, now'), now')
            /\ ev' = Event("detect_faces", "success", Result(call_face, now'), EmptyBytes)
            /\ pc' = "idle"
            /\ attempt' = 0
            /\ call_key' = NoKey
            /\ call_face' = FALSE
       ELSE IF attempt < Len(RetryDelays)
       THEN /\ attempt' = attempt + 1
            /\ ev' = Event("detect_faces", "retry", NoneResult, EmptyBytes)
            /\ UNCHANGED <<pc, call_key, call_face, ok_count, fail_count, breaker_open,
                           consecutive_failures, breaker_until_ns, cache,
                           opened_at, fail_streak, lru>>
       ELSE /\ RegisterFailure(now')
            /\ ev' = Event("detect_faces", "failure", NoneResult, EmptyBytes)
            /\ pc' = "idle"
            /\ attempt' = 0
            /\ call_key' = NoKey
            /\ call_face' = FALSE
    /\ UNCHANGED <<enabled, rps, min_interval_ms, call_times, last_call_ns,
                   accepted, accepted_calls>>
    /\ UNCHANGED <<pipeVars, govVars, sideVars>>

NetAttempt(responds, rtt) == NetAttemptCall(responds, rtt) /\ UNCHANGED cloudVars

(***************************************************************************)
(* The clock.  Every guard of the client compares the clock with one of    *)
(* the instants below, so between two calls the clock is moved to the next *)
(* instants at which the answer of a guard changes: the end of the minimum *)
(* interval, the first instant a reservation has left the rolling window,  *)
(* the end of the breaker cooldown, the last instant a cache entry is      *)
(* fresh and the first it is stale.                                        *)
(***************************************************************************)
Deadlines ==
    {last_call_ns + min_interval_ms}
        \cup {call_times[i] + RATE_WINDOW_MS + 1 : i \in 1..Len(call_times)}
        \cup {breaker_until_ns}
        \cup {cache[i].ts + CACHE_TTL_MS : i \in 1..Len(cache)}
        \cup {cache[i].ts + CACHE_TTL_MS + 1 : i \in 1..Len(cache)}

Tick(t) ==
    /\ pc = "idle"
    /\ t > now
    /\ t <= MaxTime
    /\ now' = t
    /\ ev' = Event("tick", "done", NoneResult, EmptyBytes)
    /\ UNCHANGED <<clientVars, accepted>>
    /\ UNCHANGED <<pipeVars, govVars, restVars>>

(***************************************************************************)
(* The pipeline as constructed (VisionPipeline.__init__): no loop thread,  *)
(* an executor only when the client is enabled, no future, no result.      *)
(***************************************************************************)
Jobs == 1..MaxJobs

InitPipeline ==
    /\ running = FALSE
    /\ stop_event = FALSE
    /\ loop_pc = "none"
    /\ stop_pc = "idle"
    /\ cloud_executor = enabled
    /\ executor_shutdown = FALSE
    /\ cloud_future = 0
    /\ cloud_latest = "none"
    /\ job_state = [j \in Jobs |-> "new"]
    /\ collected = {}

(***************************************************************************)
(* The guidance debounce as constructed: no marker has a reported state    *)
(* or a dwell start.                                                       *)
(***************************************************************************)
MarkerIds == {1, 2, 3}

InitGuidance ==
    /\ aruco_last_state = [id \in MarkerIds |-> "none"]
    /\ aruco_state_since = [id \in MarkerIds |-> <<>>]
    /\ raw_last = [id \in MarkerIds |-> "none"]
    /\ raw_since = [id \in MarkerIds |-> now]
    /\ raw_hist = [id \in MarkerIds |-> <<>>]
    /\ guide_shapes = [id \in MarkerIds |-> {}]

(***************************************************************************)
(* Landmarks.  A coordinate is an integer number of 1/SCALE of the frame;  *)
(* a point is <<x, y>>, a landmark mapping takes each key to a point or    *)
(* to <<>> when the key is missing.  The inputs are multiples of SCALE/10  *)
(* and SCALE is 10^(MaxSmoothings+1), so that MaxSmoothings successive     *)
(* weighted means with weights in tenths are exact.                        *)
(***************************************************************************)
MaxSmoothings == 4

SCALE == 10 ^ (MaxSmoothings + 1)

Tenths(n) == n * (SCALE \div 10)

Names == {"mouth_center", "cheek_left"}

NoPoint == <<>>

NoLandmarks == [name \in Names |-> NoPoint]

NoUpdates == [name \in Names |-> 0]

LandmarkEvent(op, base, cloud, confidence, out, mid, updates) ==
    [op |-> op, base |-> base, cloud |-> cloud, confidence |-> confidence,
     out |-> out, ema_mid |-> mid, updates |-> updates]

InitLandmarks ==
    /\ ema = NoLandmarks
    /\ last_landmarks = NoLandmarks
    /\ lm_ev = LandmarkEvent("init", NoLandmarks, NoLandmarks, 0, NoLandmarks,
                             NoLandmarks, NoUpdates)
    /\ lm_steps = 0
    /\ smooth_run = [name |-> "", value |-> NoPoint, count |-> 0]

(***************************************************************************)
(* Camera intrinsics (ar_overlay module state, lines 20-24).  What a call  *)
(* of load_camera_intrinsics gives is the tuple it returns, or the fact    *)
(* that it raised.                                                         *)
(***************************************************************************)
Outcome(k, dist, ok, err) == [k |-> k, dist |-> dist, ok |-> ok, err |-> err, raised |-> FALSE]

RaisedOutcome == [k |-> "none", dist |-> "none", ok |-> FALSE, err |-> "none", raised |-> TRUE]

NoOutcome == Outcome("none", "none", FALSE, "none")

InitIntrinsics ==
    /\ INTRINSICS_TRIED = FALSE
    /\ INTRINSICS_OK = FALSE
    /\ K = "none"
    /\ DIST = "none"
    /\ INTRINSICS_ERR = "none"
    /\ file_reads = 0
    /\ intr_calls = 0
    /\ intr_ev = [out |-> NoOutcome, read |-> FALSE]
    /\ first_outcome = NoOutcome

(***************************************************************************)
(* Fiducial tracking (ar_overlay module state, lines 176-181).  A marker   *)
(* or anchor is [seen, center, angles]; angles are <<>> without a pose.    *)
(***************************************************************************)
ArIds == {1, 2}

NoAngles == <<>>

NotSeen == [seen |-> FALSE, center |-> NoPoint, angles |-> NoAngles]

Marker(center, angles) == [seen |-> TRUE, center |-> center, angles |-> angles]

NoAnchors == [id \in ArIds |-> NotSeen]

ArEvent(op, detected, raised, too_soon, observed, anchors, prev_anchors, prev_seen) ==
    [op |-> op, detected |-> detected, raised |-> raised, too_soon |-> too_soon,
     observed |-> observed, anchors |-> anchors, prev_anchors |-> prev_anchors,
     prev_seen |-> prev_seen]

InitAruco(pose, available) ==
    /\ prev_center = [id \in ArIds |-> NoPoint]
    /\ prev_angles = [id \in ArIds |-> NoAngles]
    /\ last_ts = 0
    /\ last_anchors = NoAnchors
    /\ pose_requested = pose
    /\ aruco_available = available
    /\ last_seen = {}
    /\ ar_calls = 0
    /\ ar_ev = ArEvent("init", FALSE, FALSE, FALSE, NoAnchors, NoAnchors, NoAnchors, {})

(* The end of a processing cycle: nothing sent, no run of cycles without     *)
(* landmarks, an empty latency window.                                     *)
DefaultCycleMs == 33

NoTailEvent == [regular |-> FALSE, hint |-> FALSE, reset |-> "none", e2e_ms |-> 0]

InitLoopTail(period) ==
    /\ frame_count = 0
    /\ last_overlay_ts_ms = 0
    /\ no_face_since = <<>>
    /\ latency_window_frames = 0
    /\ period_ms = period
    /\ sent = <<>>
    /\ stall_hints = 0
    /\ prev_e2e_ms = 0
    /\ tail_ev = NoTailEvent

(* A CameraCapture that has not been constructed yet.                      *)
NoRead == [ok |-> FALSE, frame |-> 0, ts |-> 0, published |-> 0]

NoClose == [thread_alive |-> FALSE, released_alive |-> FALSE, capture |-> "none"]

InitCamera ==
    /\ cam_state = "unbuilt"
    /\ cam_mock = FALSE
    /\ cam_last_error = "none"
    /\ cam_capture = "none"
    /\ cam_stop_event = FALSE
    /\ acq_pc = "none"
    /\ acq_ts = 0
    /\ frame_lock = "free"
    /\ latest_frame = 0
    /\ latest_ts = 0
    /\ reader_pc = "idle"
    /\ reader_frame = 0
    /\ close_pc = "idle"
    /\ health_camera = "off"
    /\ health_camera_error = "none"
    /\ published = 0
    /\ read_ev = NoRead
    /\ prev_read_ts = 0
    /\ closes = 0
    /\ close_ev = NoClose

(* No face has been seen: the region of interest is the whole frame.       *)
NoBox == <<>>

NoRoiEvent == [crop |-> NoBox, ran |-> FALSE, found |-> FALSE, scaled |-> FALSE,
               mark |-> <<>>, full |-> <<>>]

InitRoi ==
    /\ last_face_bbox = NoBox
    /\ known_face = NoBox
    /\ roi_ev = NoRoiEvent

(* A pipeline as constructed: its camera open and acquiring, no loop       *)
(* thread yet.                                                             *)
MaxLoops == 2
MaxCams == 3
MaxStops == 3

LoopIds == 1..MaxLoops
CamIds == 1..MaxCams

NoCam == [thread |-> "none", device |-> "none", stopped |-> FALSE]

NewCam == [thread |-> "alive", device |-> "open", stopped |-> FALSE]

NoStop == [was_running |-> FALSE, loop_alive |-> FALSE, cam_alive |-> FALSE,
           device_open |-> FALSE]

InitLife ==
    /\ loops = [l \in LoopIds |-> "unborn"]
    /\ thread = 0
    /\ caller_pc = "idle"
    /\ cams = [c \in CamIds |-> IF c = 1 THEN NewCam ELSE NoCam]
    /\ camera = 1
    /\ signaled = [l \in LoopIds |-> FALSE]
    /\ late_cycles = [l \in LoopIds |-> 0]
    /\ stop_returns = 0
    /\ life_ev = NoStop

(* No job has been submitted, no remote result is held, no cycle has run.  *)
NoJob == [state |-> "none", img |-> EmptyBytes, ret |-> NoneResult, how |-> "none"]

(* A cycle: whether use_cloud and enabled were both set when it read them, *)
(* how the job it collected had ended ("none": it collected no job) and    *)
(* which gate of detect_faces had answered it, whether a result was held   *)
(* after collecting and whether that result was older than the TTL, and    *)
(* whether a remote result was merged into the cycle's landmarks.          *)
NoCycle == [use |-> FALSE, collected |-> "none", how |-> "none", held |-> FALSE,
            stale |-> FALSE, merged |-> FALSE]

InitCloud ==
    /\ cloud_job = NoJob
    /\ cloud_result = NoneResult
    /\ cycle_ev = NoCycle

InitRest ==
    /\ InitGuidance
    /\ InitLandmarks
    /\ InitIntrinsics
    /\ InitAruco(TRUE, TRUE)
    /\ InitLoopTail(DefaultCycleMs)
    /\ InitCamera
    /\ InitRoi
    /\ InitLife
    /\ InitCloud

(***************************************************************************)
(* The governor as constructed: face stride 1, fiducial stride from the    *)
(* settings when that is in 1..8 (2 otherwise), target width the camera    *)
(* width, and the construction counted as the last adaptation.             *)
(***************************************************************************)
InitGovernor(width, stride) ==
    /\ camera_width = width
    /\ aruco_stride = stride
    /\ face_frame_stride = 1
    /\ aruco_frame_stride = (IF 1 <= stride /\ stride <= 8 THEN stride ELSE 2)
    /\ face_target_w = width
    /\ perf_last_adapt_ns = now
    /\ latency_ms = 0
    /\ last_slow_ns = 0
    /\ gov_prev = [face |-> 1, aruco |-> 2, w |-> width]

(***************************************************************************)
(* The client as constructed (__init__), with or without credentials.      *)
(***************************************************************************)
InitClient(r, mi) ==
    /\ rps = (IF r < 1 THEN 1 ELSE r)
    /\ min_interval_ms = (IF mi < 0 THEN 0 ELSE mi)
    /\ ok_count = 0
    /\ fail_count = 0
    /\ breaker_open = FALSE
    /\ consecutive_failures = 0
    /\ breaker_until_ns = 0
    /\ call_times = <<>>
    /\ last_call_ns = 0
    /\ cache = <<>>
    /\ pc = "idle"
    /\ attempt = 0
    /\ call_key = NoKey
    /\ call_face = FALSE
    /\ call_attempts = 0
    /\ ev = Event("init", "done", NoneResult, EmptyBytes)
    /\ opened_at = 0
    /\ fail_streak = 0
    /\ accepted = <<>>
    /\ accepted_calls = 0
    /\ lru = <<>>

Init ==
    /\ now = StartTime
    /\ enabled \in BOOLEAN
    /\ InitClient(DEFAULT_RPS, DEFAULT_MIN_INTERVAL_MS)
    /\ use_cloud = FALSE
    /\ InitPipeline
    /\ InitRest
    /\ InitGovernor(APP_CAMERA_WIDTH, DEFAULT_ARUCO_STRIDE)

Next ==
    \/ \E img \in Images : DetectFaces(img)
    \/ \E responds \in BOOLEAN : \E rtt \in Rtts : NetAttempt(responds, rtt)
    \/ \E t \in Deadlines : Tick(t)

Spec == Init /\ [][Next]_vars

(***************************************************************************)
(* The rate limiter on its own, as test_rate_limit_reservation drives it:  *)
(* a client with limits drawn from the bounds, _reserve_slot_locked called *)
(* at the current instant, and a clock that moves between calls.           *)
(***************************************************************************)
ReserveSlot ==
    LET r == ReserveSlotLocked(call_times, last_call_ns, rps, min_interval_ms, now) IN
    /\ pc = "idle"
    /\ call_times' = r.call_times
    /\ last_call_ns' = r.last_call_ns
    /\ accepted' = (IF r.ok THEN Append(accepted, now) ELSE accepted)
    /\ ev' = Event("reserve", IF r.ok THEN "accepted" ELSE "rejected",
                   NoneResult, EmptyBytes)
    /\ UNCHANGED <<now, enabled, rps, min_interval_ms, ok_count, fail_count,
                   breaker_open, consecutive_failures, breaker_until_ns, cache,
                   pc, attempt, call_key, call_face, call_attempts, opened_at,
                   fail_streak, accepted_calls, lru>>
    /\ UNCHANGED <<pipeVars, govVars, restVars>>

TickLimiter(d) ==
    /\ now + d <= MaxLimiterTime
    /\ now' = now + d
    /\ ev' = Event("tick", "done", NoneResult, EmptyBytes)
    /\ UNCHANGED <<clientVars, accepted>>
    /\ UNCHANGED <<pipeVars, govVars, restVars>>

InitLimiter ==
    /\ now = StartTime
    /\ enabled = TRUE
    /\ \E r \in 1..MaxRps : \E mi \in MinIntervals : InitClient(r, mi)
    /\ use_cloud = FALSE
    /\ InitPipeline
    /\ InitRest
    /\ InitGovernor(APP_CAMERA_WIDTH, DEFAULT_ARUCO_STRIDE)

NextLimiter ==
    \/ ReserveSlot
    \/ \E d \in LimiterTicks : TickLimiter(d)

SpecLimiter == InitLimiter /\ [][NextLimiter]_vars

(***************************************************************************)
(* C4 (as amended).  With rps = N and min_interval_ms = 0, reservations    *)
(* made at one instant on a limiter that accepted nothing before succeed   *)
(* until N are accepted and the next one at that instant fails; once MORE  *)
(* than 1 second has elapsed since the accepted reservations, a new        *)
(* reservation succeeds again.                                             *)
(***************************************************************************)
AllAcceptedAt(t) == \A i \in 1..Len(accepted) : accepted[i] = t

C4_Burst ==
    (ev'.op = "reserve" /\ min_interval_ms = 0 /\ AllAcceptedAt(now))
        => (ev'.kind = "accepted" <=> Len(accepted) < rps)

C4_RefillAfter(elapsed_ok(_)) ==
    (/\ ev'.op = "reserve"
     /\ min_interval_ms = 0
     /\ accepted # <<>>
     /\ \A i \in 1..Len(accepted) : elapsed_ok(now - accepted[i]))
        => ev'.kind = "accepted"

MoreThanWindow(d) == d > RATE_WINDOW_MS

AtLeastWindow(d) == d >= RATE_WINDOW_MS

C4_WindowFreesAfterOneSecond ==
    [][C4_Burst /\ C4_RefillAfter(MoreThanWindow)]_vars

(***************************************************************************)
(* C4 as claimed: the new reservation succeeds once 1 second has elapsed   *)
(* (at exactly 1 second too).                                              *)
(***************************************************************************)
C4_AsClaimed ==
    [][C4_Burst /\ C4_RefillAfter(AtLeastWindow)]_vars

(***************************************************************************)
(* C4 witness: rps reservations were accepted at one instant, the next at  *)
(* that instant was refused (the history holds exactly rps entries for     *)
(* it), and a reservation made more than 1 second later was accepted.      *)
(***************************************************************************)
C4_Witness ==
    /\ min_interval_ms = 0
    /\ rps = MaxRps
    /\ ev.op = "reserve"
    /\ ev.kind = "accepted"
    /\ Len(accepted) = rps + 1
    /\ \A i \in 1..rps : accepted[i] = accepted[1]
    /\ accepted[rps + 1] = now
    /\ now - accepted[1] > RATE_WINDOW_MS

(***************************************************************************)
(* C5.  With fixed limits: at most rps accepted reservations lie in any    *)
(* rolling (closed) 1-second window, two consecutive accepted reservations *)
(* are at least min_interval_ms apart, and only accepted reservations are  *)
(* counted: the window holds accepted reservations only and the            *)
(* last-accepted timestamp is that of the last accepted reservation.       *)
(***************************************************************************)
AcceptedWithin(lo, hi) ==
    Cardinality({i \in 1..Len(accepted) : lo <= accepted[i] /\ accepted[i] <= hi})

IsSuffix(s, full) ==
    /\ Len(s) <= Len(full)
    /\ \A i \in 1..Len(s) : s[i] = full[Len(full) - Len(s) + i]

C5_RateLimiterInvariant ==
    /\ \A i \in 1..Len(accepted) :
           AcceptedWithin(accepted[i], accepted[i] + RATE_WINDOW_MS) <= rps
    /\ \A i \in 1..(Len(accepted) - 1) :
           accepted[i + 1] - accepted[i] >= min_interval_ms
    /\ IsSuffix(call_times, accepted)
    /\ last_call_ns = (IF accepted = <<>> THEN 0 ELSE accepted[Len(accepted)])

(***************************************************************************)
(* C5 witness: a reservation was just rejected while the window was full,  *)
(* after earlier ones were accepted at different instants.                 *)
(***************************************************************************)
C5_Witness ==
    /\ ev.op = "reserve"
    /\ ev.kind = "rejected"
    /\ Len(accepted) >= 3
    /\ min_interval_ms > 0
    /\ Len(call_times) = rps
    /\ accepted[Len(accepted)] < now

(***************************************************************************)
(* The client with a full cache.  With the limits raised by update_limits  *)
(* to 10 calls per second and no minimum interval, 32 calls with 32        *)
(* different ROIs have succeeded in bursts of 10 (a burst every 1001 ms    *)
(* from StartTime on); the initial state is the instant the last one has   *)
(* been stored.  Entry h is the h-th stored and none has been read since.  *)
(***************************************************************************)
FillBurst(h) == (h - 1) \div FILL_RPS

FillTime(h) == StartTime + (RATE_WINDOW_MS + 1) * FillBurst(h)

FullCache ==
    [h \in 1..CACHE_MAX |->
        [key |-> <<h, 0>>, ts |-> FillTime(h), res |-> Result(TRUE, FillTime(h))]]

CacheImages ==
    {Jpeg(1, 10, TRUE), Jpeg(2, 10, TRUE),
     Jpeg(CACHE_MAX + 1, 10, TRUE), Jpeg(CACHE_MAX + 2, 10, FALSE)}

InitCache ==
    /\ now = FillTime(CACHE_MAX)
    /\ enabled = TRUE
    /\ rps = FILL_RPS
    /\ min_interval_ms = 0
    /\ ok_count = CACHE_MAX
    /\ fail_count = 0
    /\ breaker_open = FALSE
    /\ consecutive_failures = 0
    /\ breaker_until_ns = 0
    /\ call_times = SelectSeq([h \in 1..CACHE_MAX |-> FillTime(h)],
                              LAMBDA t : t = FillTime(CACHE_MAX))
    /\ last_call_ns = FillTime(CACHE_MAX)
    /\ cache = FullCache
    /\ pc = "idle"
    /\ attempt = 0
    /\ call_key = NoKey
    /\ call_face = FALSE
    /\ call_attempts = 0
    /\ ev = Event("init", "done", NoneResult, EmptyBytes)
    /\ opened_at = 0
    /\ fail_streak = 0
    /\ accepted = <<>>
    /\ accepted_calls = MaxCalls - MaxCacheCalls
    /\ lru = [h \in 1..CACHE_MAX |-> <<h, 0>>]
    /\ use_cloud = FALSE
    /\ InitPipeline
    /\ InitRest
    /\ InitGovernor(APP_CAMERA_WIDTH, DEFAULT_ARUCO_STRIDE)

NextCache ==
    \/ \E img \in CacheImages : DetectFaces(img)
    \/ \E responds \in BOOLEAN : \E rtt \in Rtts : NetAttempt(responds, rtt)
    \/ \E t \in Deadlines : Tick(t)

SpecCache == InitCache /\ [][NextCache]_vars


(***************************************************************************)
(* The pipeline's remote calls.  Three threads touch _cloud_executor and   *)
(* _cloud_future without a lock: the processing loop (_run), the one       *)
(* worker of the executor, and the thread that calls stop().  Each action  *)
(* below is one step between two reads or writes of those attributes, so   *)
(* every interleaving of the three threads is a behaviour.  The client is  *)
(* seen here through the outcomes of detect_faces only: a result, None, or *)
(* an exception.                                                           *)
(***************************************************************************)
Submitted == {j \in Jobs : job_state[j] # "new"}

Finished == {j \in Jobs : job_state[j] \in {"result", "none", "error"}}

NextJob == Cardinality(Submitted) + 1

ExecutorIsNone == ~cloud_executor

FutureNeverSeen == FALSE

FutureIsSet == cloud_future # 0

LoopAt(p) == loop_pc = p

\* start(), called once by on_startup
Start ==
    /\ LoopAt("none")
    /\ ~running
    /\ running' = TRUE
    /\ stop_event' = FALSE
    /\ loop_pc' = "top"
    /\ UNCHANGED <<stop_pc, cloud_executor, executor_shutdown, cloud_future,
                   cloud_latest, use_cloud, job_state, collected>>
    /\ UNCHANGED <<now, clientVars, ev, accepted, govVars, restVars>>

\* while self._running and not self._stop_event.is_set()
LoopTop ==
    /\ LoopAt("top")
    /\ loop_pc' = (IF running /\ ~stop_event THEN "resolve" ELSE "exited")
    /\ UNCHANGED <<running, stop_event, stop_pc, cloud_executor, executor_shutdown,
                   cloud_future, cloud_latest, use_cloud, job_state, collected>>
    /\ UNCHANGED <<now, clientVars, ev, accepted, govVars, restVars>>

\* _resolve_cloud_future: "if not self._cloud_future"
ResolveCheck ==
    /\ LoopAt("resolve")
    /\ loop_pc' = (IF FutureIsSet THEN "resolve_done" ELSE "cloud")
    /\ UNCHANGED <<running, stop_event, stop_pc, cloud_executor, executor_shutdown,
                   cloud_future, cloud_latest, use_cloud, job_state, collected>>
    /\ UNCHANGED <<now, clientVars, ev, accepted, govVars, restVars>>

\* _resolve_cloud_future: "or not self._cloud_future.done(): return".  The
\* attribute is read again: when stop() has cleared it in between, the call
\* of done() on None raises outside the try and ends the loop thread.
ResolveDone ==
    /\ LoopAt("resolve_done")
    /\ loop_pc' = (IF ~FutureIsSet THEN "crashed"
                   ELSE IF cloud_future \in Finished THEN "resolve_result"
                   ELSE "cloud")
    /\ UNCHANGED <<running, stop_event, stop_pc, cloud_executor, executor_shutdown,
                   cloud_future, cloud_latest, use_cloud, job_state, collected>>
    /\ UNCHANGED <<now, clientVars, ev, accepted, govVars, restVars>>

\* _resolve_cloud_future: result = self._cloud_future.result(), an exception
\* (of the job, or of result() on an attribute stop() has cleared) makes the
\* result None; finally self._cloud_future = None; a result that is not None
\* becomes _cloud_latest.
ResolveCollect ==
    /\ LoopAt("resolve_result")
    /\ loop_pc' = "cloud"
    /\ cloud_future' = 0
    /\ IF FutureIsSet
       THEN /\ collected' = collected \cup {cloud_future}
            /\ cloud_latest' = (IF job_state[cloud_future] = "result"
                                THEN "result" ELSE cloud_latest)
       ELSE UNCHANGED <<collected, cloud_latest>>
    /\ UNCHANGED <<running, stop_event, stop_pc, cloud_executor, executor_shutdown,
                   use_cloud, job_state>>
    /\ UNCHANGED <<now, clientVars, ev, accepted, govVars, restVars>>

\* if self.settings.use_cloud and self._cloud_client.enabled: ... else: ...
CloudBranch ==
    /\ LoopAt("cloud")
    /\ IF use_cloud /\ enabled
       THEN /\ loop_pc' = "submit_check"
            /\ UNCHANGED cloud_latest
       ELSE /\ loop_pc' = "rest"
            /\ cloud_latest' = "none"
    /\ UNCHANGED <<running, stop_event, stop_pc, cloud_executor, executor_shutdown,
                   cloud_future, use_cloud, job_state, collected>>
    /\ UNCHANGED <<now, clientVars, ev, accepted, govVars, restVars>>

\* _submit_cloud_job: "if not self._cloud_executor"
SubmitCheckExecutor ==
    /\ LoopAt("submit_check")
    /\ loop_pc' = (IF ExecutorIsNone THEN "rest" ELSE "submit_check_future")
    /\ UNCHANGED <<running, stop_event, stop_pc, cloud_executor, executor_shutdown,
                   cloud_future, cloud_latest, use_cloud, job_state, collected>>
    /\ UNCHANGED <<now, clientVars, ev, accepted, govVars, restVars>>

\* _submit_cloud_job: "or self._cloud_future is not None: return", then the
\* ROI is encoded; an empty encoding returns.
SubmitCheckFuture(roi_empty) ==
    /\ LoopAt("submit_check_future")
    /\ ~roi_empty => NextJob <= MaxJobs
    /\ loop_pc' = (IF FutureIsSet \/ roi_empty THEN "rest" ELSE "submit")
    /\ UNCHANGED <<running, stop_event, stop_pc, cloud_executor, executor_shutdown,
                   cloud_future, cloud_latest, use_cloud, job_state, collected>>
    /\ UNCHANGED <<now, clientVars, ev, accepted, govVars, restVars>>

\* self._cloud_executor.submit(detect_faces, roi_bytes): submit on None
\* raises, submit on an executor that was shut down raises.
Submit ==
    /\ LoopAt("submit")
    /\ IF ExecutorIsNone \/ executor_shutdown
       THEN /\ loop_pc' = "crashed"
            /\ UNCHANGED job_state
       ELSE /\ loop_pc' = "submit_assign"
            /\ job_state' = [job_state EXCEPT ![NextJob] = "queued"]
    /\ UNCHANGED <<running, stop_event, stop_pc, cloud_executor, executor_shutdown,
                   cloud_future, cloud_latest, use_cloud, collected>>
    /\ UNCHANGED <<now, clientVars, ev, accepted, govVars, restVars>>

\* self._cloud_future = <the future submit returned>
SubmitAssign ==
    /\ LoopAt("submit_assign")
    /\ loop_pc' = "rest"
    /\ cloud_future' = Cardinality(Submitted)
    /\ UNCHANGED <<running, stop_event, stop_pc, cloud_executor, executor_shutdown,
                   cloud_latest, use_cloud, job_state, collected>>
    /\ UNCHANGED <<now, clientVars, ev, accepted, govVars, restVars>>

\* the rest of the cycle, back to the loop condition
RestOfCycle ==
    /\ LoopAt("rest")
    /\ loop_pc' = "top"
    /\ UNCHANGED <<running, stop_event, stop_pc, cloud_executor, executor_shutdown,
                   cloud_future, cloud_latest, use_cloud, job_state, collected>>
    /\ UNCHANGED <<now, clientVars, ev, accepted, govVars, restVars>>

LoopStep ==
    \/ LoopTop
    \/ ResolveCheck
    \/ ResolveDone
    \/ ResolveCollect
    \/ CloudBranch
    \/ SubmitCheckExecutor
    \/ \E roi_empty \in BOOLEAN : SubmitCheckFuture(roi_empty)
    \/ Submit
    \/ SubmitAssign
    \/ RestOfCycle

\* the executor's one worker takes the oldest queued job (shutdown(wait=False)
\* does not cancel queued jobs)
WorkerStart ==
    /\ \A j \in Jobs : job_state[j] # "running"
    /\ \E j \in Jobs :
          /\ job_state[j] = "queued"
          /\ \A k \in Jobs : job_state[k] = "queued" => j <= k
          /\ job_state' = [job_state EXCEPT ![j] = "running"]
    /\ UNCHANGED <<running, stop_event, loop_pc, stop_pc, cloud_executor,
                   executor_shutdown, cloud_future, cloud_latest, use_cloud, collected>>
    /\ UNCHANGED <<now, clientVars, ev, accepted, govVars, restVars>>

\* detect_faces returns a result, returns None, or raises
WorkerFinish(outcome) ==
    /\ \E j \in Jobs :
          /\ job_state[j] = "running"
          /\ job_state' = [job_state EXCEPT ![j] = outcome]
    /\ UNCHANGED <<running, stop_event, loop_pc, stop_pc, cloud_executor,
                   executor_shutdown, cloud_future, cloud_latest, use_cloud, collected>>
    /\ UNCHANGED <<now, clientVars, ev, accepted, govVars, restVars>>

\* stop(), called once by on_shutdown: the flags
StopBegin ==
    /\ stop_pc = "idle"
    /\ ~LoopAt("none")
    /\ IF running
       THEN /\ running' = FALSE
            /\ stop_event' = TRUE
            /\ stop_pc' = "join"
       ELSE /\ stop_pc' = "done"
            /\ UNCHANGED <<running, stop_event>>
    /\ UNCHANGED <<loop_pc, cloud_executor, executor_shutdown, cloud_future,
                   cloud_latest, use_cloud, job_state, collected>>
    /\ UNCHANGED <<now, clientVars, ev, accepted, govVars, restVars>>

\* stop(): self._thread.join(timeout=2.0) returns when the loop thread has
\* ended or after 2 s with the loop thread still in a cycle
StopJoin ==
    /\ stop_pc = "join"
    /\ stop_pc' = "shutdown"
    /\ UNCHANGED <<running, stop_event, loop_pc, cloud_executor, executor_shutdown,
                   cloud_future, cloud_latest, use_cloud, job_state, collected>>
    /\ UNCHANGED <<now, clientVars, ev, accepted, govVars, restVars>>

\* stop(): if self._cloud_executor: self._cloud_executor.shutdown(wait=False)
StopShutdown ==
    /\ stop_pc = "shutdown"
    /\ IF ExecutorIsNone
       THEN /\ stop_pc' = "clear_future"
            /\ UNCHANGED executor_shutdown
       ELSE /\ stop_pc' = "clear_executor"
            /\ executor_shutdown' = TRUE
    /\ UNCHANGED <<running, stop_event, loop_pc, cloud_executor, cloud_future,
                   cloud_latest, use_cloud, job_state, collected>>
    /\ UNCHANGED <<now, clientVars, ev, accepted, govVars, restVars>>

\* stop(): self._cloud_executor = None
StopClearExecutor ==
    /\ stop_pc = "clear_executor"
    /\ cloud_executor' = FALSE
    /\ stop_pc' = "clear_future"
    /\ UNCHANGED <<running, stop_event, loop_pc, executor_shutdown, cloud_future,
                   cloud_latest, use_cloud, job_state, collected>>
    /\ UNCHANGED <<now, clientVars, ev, accepted, govVars, restVars>>

\* stop(): self._cloud_future = None
StopClearFuture ==
    /\ stop_pc = "clear_future"
    /\ cloud_future' = 0
    /\ stop_pc' = "done"
    /\ UNCHANGED <<running, stop_event, loop_pc, cloud_executor, executor_shutdown,
                   cloud_latest, use_cloud, job_state, collected>>
    /\ UNCHANGED <<now, clientVars, ev, accepted, govVars, restVars>>

\* POST /settings with use_cloud
SetUseCloud(b) ==
    /\ use_cloud # b
    /\ use_cloud' = b
    /\ UNCHANGED <<running, stop_event, loop_pc, stop_pc, cloud_executor,
                   executor_shutdown, cloud_future, cloud_latest, job_state, collected>>
    /\ UNCHANGED <<now, clientVars, ev, accepted, govVars, restVars>>

InitPipe ==
    /\ now = StartTime
    /\ enabled \in BOOLEAN
    /\ InitClient(DEFAULT_RPS, DEFAULT_MIN_INTERVAL_MS)
    /\ use_cloud \in BOOLEAN
    /\ InitPipeline
    /\ InitRest
    /\ InitGovernor(APP_CAMERA_WIDTH, DEFAULT_ARUCO_STRIDE)

NextPipe ==
    \/ Start
    \/ LoopStep
    \/ WorkerStart
    \/ \E outcome \in {"result", "none", "error"} : WorkerFinish(outcome)
    \/ StopBegin
    \/ StopJoin
    \/ StopShutdown
    \/ StopClearExecutor
    \/ StopClearFuture
    \/ \E b \in BOOLEAN : SetUseCloud(b)

SpecPipe == InitPipe /\ [][NextPipe]_vars

(***************************************************************************)
(* The adaptive performance governor (_adapt_performance), run at the end  *)
(* of every cycle with the cycle's end-to-end latency.                     *)
(***************************************************************************)
Max(a, b) == IF a >= b THEN a ELSE b

Min(a, b) == IF a <= b THEN a ELSE b

\* the level itself, whatever the stride was: what max(stride, level) must not be
SetTo(cur, level) == level

\* max(stride, level)
RaiseTo(cur, level) == Max(cur, level)

WidenNever(w) == w

\* min(1280, int(w * 1.25)) when w < 1280
Widen(w) == IF w < 1280 THEN Min(1280, (w * 125) \div 100) ELSE w

Budget(face, aruco, w, last) == [face |-> face, aruco |-> aruco, w |-> w, last |-> last]

AdaptedEager(g, e2e_ms, t) ==
    IF e2e_ms > 1200
    THEN Budget(RaiseTo(g.face, 8), RaiseTo(g.aruco, 6), Min(g.w, 640), t)
    ELSE IF e2e_ms > 600
    THEN Budget(RaiseTo(g.face, 4), RaiseTo(g.aruco, 4), Min(g.w, 800), t)
    ELSE IF e2e_ms > 300
    THEN Budget(RaiseTo(g.face, 2), RaiseTo(g.aruco, 3), Min(g.w, 960), t)
    ELSE IF e2e_ms < RELAX_BELOW_MS
    THEN Budget(IF g.face > 1 THEN g.face - 1 ELSE g.face,
                IF g.aruco > 2 THEN g.aruco - 1 ELSE g.aruco,
                Widen(g.w), t)
    ELSE g

\* the escalation branches and the relaxation branch
Adapted(g, e2e_ms, t) ==
    IF e2e_ms > 1200
    THEN Budget(RaiseTo(g.face, 8), RaiseTo(g.aruco, 6), Min(g.w, 640), t)
    ELSE IF e2e_ms > 600
    THEN Budget(RaiseTo(g.face, 4), RaiseTo(g.aruco, 4), Min(g.w, 800), t)
    ELSE IF e2e_ms > 300
    THEN Budget(RaiseTo(g.face, 2), RaiseTo(g.aruco, 3), Min(g.w, 960), t)
    ELSE IF (t - g.last) > RELAX_AFTER_MS /\ e2e_ms < RELAX_BELOW_MS
    THEN Budget(IF g.face > 1 THEN g.face - 1 ELSE g.face,
                IF g.aruco > 2 THEN g.aruco - 1 ELSE g.aruco,
                Widen(g.w), t)
    ELSE g

\* the safety bounds
Bounded(g) ==
    Budget(Min(Max(g.face, 1), 8), Min(Max(g.aruco, 2), 8),
           Min(Max(g.w, 320), 1280), g.last)

\* the run without the baseline step
NotBaselined(g, setting) == g

\* the baseline stride of the settings
Baselined(g, setting) ==
    LET baseline == IF setting < 1 THEN 1 ELSE setting
    IN  [g EXCEPT !.aruco = IF g.aruco < baseline THEN baseline ELSE g.aruco]

AdaptPerformanceResult(g, e2e_ms, t, setting) ==
    Baselined(Bounded(Adapted(g, e2e_ms, t)), setting)

\* one cycle of the loop as the governor sees it: the cycle took cycle_ms of
\* wall-clock time, its latency e2e_ms is published (health.latency_ms) and
\* _adapt_performance(e2e_ms) runs
AdaptPerformanceUntil(e2e_ms, cycle_ms, limit) ==
    LET t == now + cycle_ms
        g == AdaptPerformanceResult(
                 Budget(face_frame_stride, aruco_frame_stride, face_target_w,
                        perf_last_adapt_ns),
                 e2e_ms, t, aruco_stride)
    IN  /\ cycle_ms >= e2e_ms
        /\ t <= limit
        /\ now' = t
        /\ latency_ms' = e2e_ms
        /\ face_frame_stride' = g.face
        /\ aruco_frame_stride' = g.aruco
        /\ face_target_w' = g.w
        /\ perf_last_adapt_ns' = g.last
        /\ last_slow_ns' = (IF e2e_ms >= RELAX_BELOW_MS THEN t ELSE last_slow_ns)
        /\ gov_prev' = [face |-> face_frame_stride, aruco |-> aruco_frame_stride,
                        w |-> face_target_w]
        /\ ev' = Event("adapt_performance", "done", NoneResult, EmptyBytes)
        /\ UNCHANGED <<aruco_stride, camera_width>>
        /\ UNCHANGED <<clientVars, accepted, pipeVars, restVars>>

AdaptPerformance(e2e_ms, cycle_ms) == AdaptPerformanceUntil(e2e_ms, cycle_ms, MaxGovTime)

\* the operator sets settings.aruco_stride (clamped to 1..8 by the endpoint)
SetArucoStride(stride) ==
    /\ aruco_stride # stride
    /\ aruco_stride' = Max(1, Min(stride, 8))
    /\ ev' = Event("settings", "done", NoneResult, EmptyBytes)
    /\ UNCHANGED <<face_frame_stride, aruco_frame_stride, face_target_w,
                   perf_last_adapt_ns, camera_width, latency_ms, last_slow_ns, gov_prev>>
    /\ UNCHANGED <<now, clientVars, accepted, pipeVars, restVars>>

InitGov ==
    /\ now = StartTime
    /\ enabled = FALSE
    /\ InitClient(DEFAULT_RPS, DEFAULT_MIN_INTERVAL_MS)
    /\ use_cloud = FALSE
    /\ InitPipeline
    /\ InitRest
    /\ \E width \in CameraWidths : \E stride \in ArucoStrides : InitGovernor(width, stride)

NextGov ==
    \/ \E e2e_ms \in Latencies : \E cycle_ms \in CycleTimes : AdaptPerformance(e2e_ms, cycle_ms)
    \/ \E stride \in ArucoStrides : SetArucoStride(stride)

SpecGov == InitGov /\ [][NextGov]_vars

(***************************************************************************)
(* Steps of detect_faces as the formulas below name them.  CallEntry: the  *)
(* step is a call of detect_faces (the argument is ev'.img).  Completed:   *)
(* the step ends an accepted remote call, with success or with failure.    *)
(***************************************************************************)
CallEntry == pc = "idle" /\ ev'.op = "detect_faces"

Completed == pc = "net" /\ ev'.kind \in {"success", "failure"}

InCooldown == breaker_open /\ now - opened_at < BREAKER_OPEN_MS

CooldownExpired == breaker_open /\ now - opened_at >= BREAKER_OPEN_MS

NoNetwork == pc' = "idle" /\ call_attempts' = 0 /\ ev'.ret = NoneResult

(***************************************************************************)
(* C1 as claimed.  After three consecutive accepted calls have each failed *)
(* the breaker is open, and every call made while the breaker is open and  *)
(* less than 10 s have passed since it opened returns None without a       *)
(* network attempt.                                                        *)
(***************************************************************************)
C1_OpensAfterThreeFailures ==
    (Completed /\ ev'.kind = "failure" /\ fail_streak' >= FAILURE_THRESHOLD)
        => breaker_open'

C1_RefusesInCooldown ==
    (CallEntry /\ InCooldown) => NoNetwork

C1_AsClaimed == [][C1_OpensAfterThreeFailures /\ C1_RefusesInCooldown]_vars

(***************************************************************************)
(* C2 as claimed.  The first call after the cooldown has expired is        *)
(* attempted on the network, and a success of it leaves the breaker closed *)
(* and the failure counter zero.                                           *)
(***************************************************************************)
C2_SuccessCloses ==
    (Completed /\ ev'.kind = "success")
        => (~breaker_open' /\ consecutive_failures' = 0)

C2_ProbeAttempted == (CallEntry /\ CooldownExpired) => pc' = "net"

C2_AsClaimed == [][C2_ProbeAttempted /\ C2_SuccessCloses]_vars

(***************************************************************************)
(* C2 (as amended).  The first call after the cooldown has expired is not  *)
(* refused by the breaker: when its image decodes and the rate limiter     *)
(* admits it, it is attempted on the network; when the image is empty or   *)
(* does not decode, or the limiter rejects it, it returns None.  A success *)
(* of the attempt leaves the breaker closed and the failure counter zero.  *)
(***************************************************************************)
LimiterAdmits ==
    ReserveSlotLocked(call_times, last_call_ns, rps, min_interval_ms, now).ok

C2_ProbePassesBreaker ==
    (CallEntry /\ CooldownExpired)
        => /\ ev'.kind # "breaker"
           /\ (Decodes(ev'.img) /\ LimiterAdmits) => pc' = "net"
           /\ ~(Decodes(ev'.img) /\ LimiterAdmits) => NoNetwork

C2_ProbeAfterCooldown == [][C2_ProbePassesBreaker /\ C2_SuccessCloses]_vars

(***************************************************************************)
(* C2 witness: the breaker opened after three failures, the cooldown       *)
(* passed, and a call made after it has just succeeded.                    *)
(***************************************************************************)
C2_Witness ==
    /\ ev.kind = "success"
    /\ fail_count = FAILURE_THRESHOLD
    /\ opened_at > 0
    /\ now - opened_at >= BREAKER_OPEN_MS
    /\ ~breaker_open
    /\ consecutive_failures = 0

(***************************************************************************)
(* C3 as claimed.  The open flag and the failure counter change only in a  *)
(* step that completes an accepted remote call.                            *)
(***************************************************************************)
C3_AsClaimed ==
    [][~Completed => (/\ breaker_open' = breaker_open
                      /\ consecutive_failures' = consecutive_failures)]_vars

(***************************************************************************)
(* C6 as claimed.  A result held for a key is returned, without a network  *)
(* attempt, by a call with that key while its age is within the TTL; once  *)
(* older the call goes on to the rate limiter and the network.             *)
(***************************************************************************)
HeldFor(img) == CacheIndex(cache, CacheKey(img))

C6_Lookup ==
    (CallEntry /\ enabled /\ Decodes(ev'.img) /\ HeldFor(ev'.img) # 0)
        => IF now - cache[HeldFor(ev'.img)].ts <= CACHE_TTL_MS
           THEN /\ ev'.kind = "cached"
                /\ ev'.ret = cache[HeldFor(ev'.img)].res
                /\ pc' = "idle"
                /\ call_attempts' = 0
           ELSE /\ ev'.kind = (IF LimiterAdmits THEN "accepted" ELSE "rate_limited")
                /\ pc' = (IF LimiterAdmits THEN "net" ELSE "idle")

C6_Stored ==
    (Completed /\ ev'.kind = "success")
        => /\ CacheIndex(cache', call_key) # 0
           /\ cache'[CacheIndex(cache', call_key)].res = ev'.ret
           /\ cache'[CacheIndex(cache', call_key)].ts = now'

C6_AsClaimed == [][C6_Stored /\ C6_Lookup]_vars

(***************************************************************************)
(* C6 (as amended).  Every successful response, positive or negative, is   *)
(* stored under its key; a call with that key that the breaker does not    *)
(* refuse (the breaker is closed or its cooldown has expired) returns the  *)
(* held result without a network attempt while its age is within the 10 s  *)
(* TTL, and goes on to the rate limiter and, if admitted, the network once *)
(* it is older.  A call refused by the open breaker returns None.          *)
(***************************************************************************)
C6_CachedUnlessBreakerRefuses ==
    [][/\ C6_Stored
       /\ ~InCooldown => C6_Lookup
       /\ (CallEntry /\ enabled /\ ev'.img # EmptyBytes /\ InCooldown)
              => ev'.kind = "breaker"]_vars

(***************************************************************************)
(* C6 witness: a negative result has just been returned from the cache at  *)
(* the very end of its TTL.                                                *)
(***************************************************************************)
C6_Witness ==
    /\ ev.kind = "cached"
    /\ ~ev.ret.isNone
    /\ ~ev.ret.ok
    /\ now - ev.ret.ts_ns = CACHE_TTL_MS

(***************************************************************************)
(* C37: detect_faces applies its gates in the order breaker, cache, rate   *)
(* limiter.  A call with a usable image made while the breaker is open and *)
(* within its cooldown returns None, also when a fresh result is cached.   *)
(* A call the breaker lets pass whose key has a fresh cached result        *)
(* returns that result, also when the rate limiter would reject it, and    *)
(* leaves the limiter's window and last-call time as they were.  Only a    *)
(* call that passed both gates reaches the rate limiter.                   *)
(***************************************************************************)
HeldFresh(img) ==
    HeldFor(img) # 0 /\ now - cache[HeldFor(img)].ts <= CACHE_TTL_MS

C37_BreakerFirst ==
    (CallEntry /\ enabled /\ ev'.img # EmptyBytes /\ InCooldown)
        => (ev'.kind = "breaker" /\ NoNetwork)

C37_CacheBeforeLimiter ==
    (CallEntry /\ enabled /\ Decodes(ev'.img) /\ ~InCooldown /\ HeldFresh(ev'.img))
        => /\ ev'.kind = "cached"
           /\ ev'.ret = cache[HeldFor(ev'.img)].res
           /\ call_times' = call_times
           /\ last_call_ns' = last_call_ns
           /\ pc' = "idle"

C37_LimiterLast ==
    (CallEntry /\ ev'.kind \in {"accepted", "rate_limited"})
        => (~InCooldown /\ ~HeldFresh(ev'.img))

C37_GateOrder ==
    [][C37_BreakerFirst /\ C37_CacheBeforeLimiter /\ C37_LimiterLast]_vars

(***************************************************************************)
(* C37 witness: a cached result has just been returned by a call that the  *)
(* rate limiter would have rejected.                                       *)
(***************************************************************************)
C37_Witness ==
    /\ ev.kind = "cached"
    /\ ~ev.ret.isNone
    /\ ~LimiterAdmits

(***************************************************************************)
(* C38: an accepted call makes at most 4 network attempts and stops at the *)
(* first response.  fail_count and the consecutive-failure counter go up,  *)
(* by exactly one each, in the step in which the last of the 4 attempts    *)
(* has failed, and in no other step of the call: a failed attempt that is  *)
(* retried leaves both as they were, and a response leaves fail_count as   *)
(* it was and the consecutive-failure counter at zero.                     *)
(***************************************************************************)
InCall == pc = "net" /\ ev'.op = "detect_faces"

AllAttemptsFailed == call_attempts' = MAX_ATTEMPTS /\ ev'.kind # "success"

C38_BoundedAttempts ==
    InCall => /\ call_attempts' = call_attempts + 1
              /\ call_attempts' <= MAX_ATTEMPTS
              /\ ev'.kind = "success" => pc' = "idle"
              /\ pc' = "net" => (ev'.kind = "retry" /\ call_attempts' < MAX_ATTEMPTS)

C38_CountedOnce ==
    InCall => IF AllAttemptsFailed
              THEN /\ fail_count' = fail_count + 1
                   /\ consecutive_failures' = consecutive_failures + 1
                   /\ pc' = "idle"
              ELSE /\ fail_count' = fail_count
                   /\ consecutive_failures' \in {consecutive_failures, 0}
                   /\ ev'.kind = "success" => consecutive_failures' = 0

C38_RetryLoop == [][C38_BoundedAttempts /\ C38_CountedOnce]_vars

(***************************************************************************)
(* C38 witness: the second accepted call in a row has just failed on its   *)
(* fourth attempt.                                                         *)
(***************************************************************************)
C38_Witness ==
    /\ ev.kind = "failure"
    /\ call_attempts = MAX_ATTEMPTS
    /\ fail_count = 2
    /\ consecutive_failures = 2

(***************************************************************************)
(* C7 as claimed.  The cache never holds more than 32 entries, and an      *)
(* entry leaves the cache only as the least recently used one, where both  *)
(* storing an entry and returning it on a cache hit count as a use (lru    *)
(* lists the keys held, least recently used first).                        *)
(***************************************************************************)
Evicted == CacheKeys(cache) \ CacheKeys(cache')

C7_AsClaimed ==
    [][/\ Len(cache') <= CACHE_MAX
       /\ \A k \in Evicted : k = Head(lru)]_vars

(***************************************************************************)
(* C7: the part that holds.  The cache never holds more than 32 entries,   *)
(* and storing into a full cache evicts exactly one entry, the one stored  *)
(* (inserted or overwritten) longest ago.                                  *)
(***************************************************************************)
C7_BoundedOldestStoredEvicted ==
    [][/\ Len(cache') <= CACHE_MAX
       /\ \A k \in Evicted : k = cache[1].key
       /\ Cardinality(Evicted) <= 1]_vars

C7_Witness ==
    /\ Len(cache) = CACHE_MAX
    /\ CacheIndex(cache, <<CACHE_MAX + 1, 0>>) = CACHE_MAX
    /\ CacheIndex(cache, <<1, 0>>) = 0

(***************************************************************************)
(* C8.  At any time at most one detect_faces call submitted by the         *)
(* pipeline has not been collected by _resolve_cloud_future; a step that   *)
(* submits a call is taken only when every call submitted before has been  *)
(* collected; and the loop thread, while it is in a cycle, always has a    *)
(* step it can take, whatever the state of the remote call.                *)
(***************************************************************************)
Uncollected == Submitted \ collected

InCycle == loop_pc \notin {"none", "exited", "crashed"}

C8_AtMostOnePending ==
    /\ [](Cardinality(Uncollected) <= 1)
    /\ [][Submitted' # Submitted => Uncollected = {}]_vars
    /\ [](InCycle => ENABLED LoopStep)

(***************************************************************************)
(* C8 witness: a second call has been submitted, after the first was       *)
(* collected, and is still running while the loop is in a later step.      *)
(***************************************************************************)
C8_Witness ==
    /\ collected = {1}
    /\ cloud_future = 2
    /\ job_state[2] = "running"
    /\ LoopAt("resolve_done")

(***************************************************************************)
(* C9.  A governor run with latency above 1200 ms leaves the face stride   *)
(* at exactly 8 if it was lower, the fiducial stride at 6 or more and the  *)
(* face target width at 640 or less (above 600 ms: 4, 4 and 800; above     *)
(* 300 ms: 2, 3 and 960), and on every such run neither stride ends lower  *)
(* nor the width higher than it was before the run.                        *)
(***************************************************************************)
GovernorRun == ev'.op = "adapt_performance"

EscalatedTo(face, aruco, w) ==
    /\ face_frame_stride < face => face_frame_stride' = face
    /\ face_frame_stride' >= face
    /\ aruco_frame_stride' >= aruco
    /\ face_target_w' <= w
    /\ face_frame_stride' >= face_frame_stride
    /\ aruco_frame_stride' >= aruco_frame_stride
    /\ face_target_w' <= face_target_w

C9_EscalationOnlyRaises ==
    [][GovernorRun =>
          /\ latency_ms' > 1200 => EscalatedTo(8, 6, 640)
          /\ (latency_ms' > 600 /\ latency_ms' <= 1200) => EscalatedTo(4, 4, 800)
          /\ (latency_ms' > 300 /\ latency_ms' <= 600) => EscalatedTo(2, 3, 960)]_vars

(***************************************************************************)
(* C9 witness: a run with latency above 1200 ms has just taken the face    *)
(* stride from below 8 to 8, the fiducial stride from below 6 to 6 and the *)
(* width from above 640 to 640.                                            *)
(***************************************************************************)
C9_Witness ==
    /\ ev.op = "adapt_performance"
    /\ latency_ms > 1200
    /\ gov_prev.face < 8 /\ face_frame_stride = 8
    /\ gov_prev.aruco < 6 /\ aruco_frame_stride = 6
    /\ gov_prev.w > 640 /\ face_target_w = 640

(***************************************************************************)
(* C10 as claimed.  A stride (face or fiducial) decreases in a governor    *)
(* run only after at least 3000 ms of sub-180 ms latency: the run itself   *)
(* and every cycle completed during the 3000 ms before it had a latency    *)
(* below 180 ms.                                                           *)
(***************************************************************************)
StrideDecreases ==
    /\ GovernorRun
    /\ \/ face_frame_stride' < face_frame_stride
       \/ aruco_frame_stride' < aruco_frame_stride

C10_AsClaimed ==
    [][StrideDecreases =>
          /\ latency_ms' < RELAX_BELOW_MS
          /\ last_slow_ns # 0 => now' - last_slow_ns >= RELAX_AFTER_MS]_vars

(***************************************************************************)
(* C10: what the governor does guarantee.  A stride decreases only in a    *)
(* run whose own latency is below 180 ms and that comes more than 3000 ms  *)
(* after the last adaptation, and then by one step.                        *)
(***************************************************************************)
C10_DecreaseOnlyAfterQuietAdaptation ==
    [][StrideDecreases =>
          /\ latency_ms' < RELAX_BELOW_MS
          /\ now' - perf_last_adapt_ns > RELAX_AFTER_MS
          /\ face_frame_stride' >= face_frame_stride - 1
          /\ aruco_frame_stride' >= aruco_frame_stride - 1]_vars

C10_Witness ==
    /\ ev.op = "adapt_performance"
    /\ face_frame_stride < gov_prev.face
    /\ aruco_frame_stride < gov_prev.aruco

(***************************************************************************)
(* C11.  After every governor run the fiducial stride is at least the      *)
(* configured baseline (settings.aruco_stride, at least 1), whatever the   *)
(* latencies were and however the baseline was changed between the runs.   *)
(***************************************************************************)
C11_BaselineIsFloor ==
    [][GovernorRun => aruco_frame_stride' >= Max(1, aruco_stride')]_vars

(***************************************************************************)
(* C11 witness: the baseline was raised above the stride between two runs  *)
(* and a run with low latency has just lifted the stride to it.            *)
(***************************************************************************)
C11_Witness ==
    /\ ev.op = "adapt_performance"
    /\ latency_ms < RELAX_BELOW_MS
    /\ gov_prev.aruco < aruco_stride
    /\ aruco_frame_stride = aruco_stride

(***************************************************************************)
(* C12 as claimed.  In every reachable state, the state right after        *)
(* construction included, the face stride is in 1..8, the fiducial stride  *)
(* is in 2..8 and the face target width is between 320 and the native      *)
(* camera width.                                                           *)
(***************************************************************************)
C12_AsClaimed ==
    /\ face_frame_stride \in 1..8
    /\ aruco_frame_stride \in 2..8
    /\ face_target_w \in 320..camera_width

(***************************************************************************)
(* C12: the bounds the code does keep.  The face stride is in 1..8 and the *)
(* fiducial stride in 1..8 always; after any governor run the fiducial     *)
(* stride is in 2..8 and the width is in 320..1280, whatever the native    *)
(* camera width is.                                                        *)
(***************************************************************************)
C12_BoundsKept ==
    /\ face_frame_stride \in 1..8
    /\ aruco_frame_stride \in 1..8
    /\ ev.op = "adapt_performance" =>
          /\ aruco_frame_stride \in 2..8
          /\ face_target_w \in 320..1280

(***************************************************************************)
(* C12 witness: a pipeline with a native width of 320 whose target width   *)
(* a relaxing run has just raised above the native width.                  *)
(***************************************************************************)
C12_Witness ==
    /\ ev.op = "adapt_performance"
    /\ camera_width = 320
    /\ face_target_w > camera_width

(***************************************************************************)
(* Tool guidance (VisionPipeline._build_tool_guidance).  Each call gets    *)
(* the anchors of one cycle; for every anchor whose marker has a tool the  *)
(* raw state is classified from the geometry and then debounced.           *)
(***************************************************************************)
DEBOUNCE_MS == 250

MaxGuideTime == 400

GuideGaps == {100, 300}

ToolIds == {1, 2}

(* What one anchor looks like to the classifier: whether the snap target   *)
(* landmark is known, whether the marker is within the distance tolerance, *)
(* whether the anchor carries a pose and whether its tilt is in tolerance. *)
Geometry(target, near, pose, level) ==
    [target |-> target, near |-> near, pose |-> pose, level |-> level]

Geometries ==
    {Geometry(FALSE, FALSE, FALSE, FALSE), Geometry(TRUE, FALSE, FALSE, FALSE),
     Geometry(TRUE, TRUE, FALSE, FALSE), Geometry(TRUE, TRUE, TRUE, FALSE),
     Geometry(TRUE, TRUE, TRUE, TRUE)}

Absent == [target |-> FALSE, near |-> FALSE, pose |-> FALSE, level |-> FALSE, absent |-> TRUE]

IsAbsent(g) == "absent" \in DOMAIN g

(* The anchors of one cycle: every marker with a tool in any geometry or   *)
(* absent, a marker without a tool seen or absent.                         *)
Anchors ==
    {a \in [MarkerIds -> Geometries \cup {Absent}] :
        \A id \in MarkerIds \ ToolIds :
            a[id] \in {Absent, Geometry(TRUE, TRUE, FALSE, FALSE)}}

RawState(g) ==
    IF ~g.target THEN "SEARCHING"
    ELSE IF ~g.near THEN "ALIGNING"
    ELSE IF g.pose /\ ~g.level THEN "ALIGNING"
    ELSE "GOOD"

DwellIgnored(elapsed) == FALSE

DwellNotElapsed(elapsed) == elapsed < DEBOUNCE_MS

(* The debounce of one marker at time t: the reported state and the dwell  *)
(* entry it leaves.  A missing dwell entry reads as t itself.              *)
Debounced(prev, since, state, t) ==
    IF prev = state THEN [state |-> state, since |-> since]
    ELSE LET s == IF since = <<>> THEN t ELSE since[1]
         IN  IF DwellNotElapsed(t - s)
             THEN [state |-> (IF prev # "none" THEN prev ELSE state), since |-> since]
             ELSE [state |-> state, since |-> <<t>>]

LastThree(h) == IF Len(h) > 3 THEN SubSeq(h, Len(h) - 2, Len(h)) ELSE h

\* lines 848-904: the shapes built for a marker from the state that is
\* reported and from whether the target is known
Locator == {"ring", "find_badge"}

Shapes(state, has_target) ==
    IF state = "SEARCHING" THEN Locator
    ELSE IF state = "ALIGNING" /\ has_target THEN {"arrow", "hint_badge"}
    ELSE IF state = "GOOD" /\ has_target THEN {"hold_badge"}
    ELSE {}

BuildToolGuidanceUntil(ar_anchors, gap, limit) ==
    /\ now + gap <= limit
    /\ \E id \in MarkerIds : ~IsAbsent(ar_anchors[id])
    /\ now' = now + gap
    /\ LET guided == {id \in ToolIds : ~IsAbsent(ar_anchors[id])}
           d(id) == Debounced(aruco_last_state[id], aruco_state_since[id],
                              RawState(ar_anchors[id]), now')
       IN  /\ aruco_last_state' =
                 [id \in MarkerIds |->
                     IF id \in guided THEN d(id).state ELSE aruco_last_state[id]]
           /\ aruco_state_since' =
                 [id \in MarkerIds |->
                     IF id \in guided THEN d(id).since ELSE aruco_state_since[id]]
           /\ raw_last' =
                 [id \in MarkerIds |->
                     IF id \in guided THEN RawState(ar_anchors[id]) ELSE "none"]
           /\ raw_since' =
                 [id \in MarkerIds |->
                     IF id \in guided /\ raw_last[id] = RawState(ar_anchors[id])
                     THEN raw_since[id] ELSE now']
           /\ raw_hist' =
                 [id \in MarkerIds |->
                     IF id \in guided
                     THEN LastThree(Append(raw_hist[id],
                                           [raw |-> RawState(ar_anchors[id]), t |-> now']))
                     ELSE raw_hist[id]]
           /\ guide_shapes' =
                 [id \in MarkerIds |->
                     IF id \in guided THEN Shapes(d(id).state, ar_anchors[id].target)
                     ELSE {}]
    /\ UNCHANGED <<clientVars, ev, accepted, pipeVars, govVars, lmVars, intrVars, arVars,
                   tailVars, camVars, roiVars, lifeVars, cloudVars>>

BuildToolGuidance(ar_anchors, gap) == BuildToolGuidanceUntil(ar_anchors, gap, MaxGuideTime)

InitGuide ==
    /\ now = StartTime
    /\ enabled = FALSE
    /\ InitClient(DEFAULT_RPS, DEFAULT_MIN_INTERVAL_MS)
    /\ use_cloud = FALSE
    /\ InitPipeline
    /\ InitRest
    /\ InitGovernor(APP_CAMERA_WIDTH, DEFAULT_ARUCO_STRIDE)

NextGuide ==
    \E ar_anchors \in Anchors : \E gap \in GuideGaps : BuildToolGuidance(ar_anchors, gap)

SpecGuide == InitGuide /\ [][NextGuide]_vars

(***************************************************************************)
(* C13: for every marker, when a call classifies the marker differently    *)
(* from its reported state and the marker has been classified that way     *)
(* for less than the 250 ms dwell window, the reported state stays what    *)
(* it was.                                                                 *)
(***************************************************************************)
C13_TransientNeverReported ==
    [][\A id \in MarkerIds :
          (/\ raw_last'[id] # "none"
           /\ aruco_last_state[id] # "none"
           /\ raw_last'[id] # aruco_last_state[id]
           /\ now' - raw_since'[id] < DEBOUNCE_MS)
          => aruco_last_state'[id] = aruco_last_state[id]]_vars

(***************************************************************************)
(* C13 witness: a marker classified GOOD, ALIGNING, GOOD in three calls    *)
(* less than the dwell window apart, whose reported state is GOOD.         *)
(***************************************************************************)
C13_Witness ==
    \E id \in MarkerIds :
        /\ Len(raw_hist[id]) = 3
        /\ raw_hist[id][1].raw = "GOOD"
        /\ raw_hist[id][2].raw = "ALIGNING"
        /\ raw_hist[id][3].raw = "GOOD"
        /\ raw_hist[id][3].t - raw_hist[id][1].t < DEBOUNCE_MS
        /\ aruco_last_state[id] = "GOOD"

(***************************************************************************)
(* Landmark smoothing and blending (VisionPipeline._smooth,                *)
(* _process_landmarks, _merge_cloud_landmarks and their calls in _run).    *)
(* Weights are in tenths.  A smoothing state s is the EMA mapping with,    *)
(* per key, the number of times the key was written in the operation.      *)
(***************************************************************************)
ALPHA_TENTHS == 4

DEFAULT_WEIGHT_TENTHS == 5

MIN_WEIGHT_TENTHS == 2

MAX_WEIGHT_TENTHS == 8

(* a * (1 - w) + b * w *)
Mix(a, b, w) == (a * (10 - w) + b * w) \div 10

MixPoint(p, q, w) == <<Mix(p[1], q[1], w), Mix(p[2], q[2], w)>>

SmoothingState(e) == [ema |-> e, updates |-> NoUpdates]

SmoothedLagging(s, name, value) ==
    LET prev == IF s.ema[name] = NoPoint THEN <<0, 0>> ELSE s.ema[name]
        out == MixPoint(prev, value, ALPHA_TENTHS)
    IN  [ema |-> [s.ema EXCEPT ![name] = out],
         updates |-> [s.updates EXCEPT ![name] = @ + 1],
         out |-> out]

Smoothed(s, name, value) ==
    LET prev == s.ema[name]
        out == IF prev = NoPoint THEN value ELSE MixPoint(prev, value, ALPHA_TENTHS)
    IN  [ema |-> [s.ema EXCEPT ![name] = out],
         updates |-> [s.updates EXCEPT ![name] = @ + 1],
         out |-> out]

(* _process_landmarks on a frame where the detector found the points       *)
(* `detected`: every configured key found is smoothed.                     *)
Processed(s, detected) ==
    LET r(name) == Smoothed(s, name, detected[name])
        found(name) == detected[name] # NoPoint
    IN  [ema |-> [name \in Names |-> IF found(name) THEN r(name).ema[name] ELSE s.ema[name]],
         updates |-> [name \in Names |->
                         IF found(name) THEN r(name).updates[name] ELSE s.updates[name]],
         out |-> [name \in Names |-> IF found(name) THEN r(name).out ELSE NoPoint]]

UnclampedWeight(confidence) ==
    IF confidence > 0 THEN confidence ELSE DEFAULT_WEIGHT_TENTHS

Weight(confidence) ==
    LET weight == IF confidence > 0 THEN confidence ELSE DEFAULT_WEIGHT_TENTHS
    IN  Max(MIN_WEIGHT_TENTHS, Min(MAX_WEIGHT_TENTHS, weight))

Clamp01(v) == Min(SCALE, Max(0, v))

WellFormed(coords) == Len(coords) = 2

MergedResmoothingBase(s, base, cloud_landmarks, confidence) ==
    LET present(name) == base[name] # NoPoint
        r(name) == Smoothed(s, name, base[name])
    IN  [ema |-> [name \in Names |-> IF present(name) THEN r(name).ema[name] ELSE s.ema[name]],
         updates |-> [name \in Names |->
                         IF present(name) THEN r(name).updates[name] ELSE s.updates[name]],
         out |-> [name \in Names |-> IF present(name) THEN r(name).out ELSE base[name]]]

(* _merge_cloud_landmarks: every well-formed remote entry is clamped to    *)
(* the frame, blended with the base point of the same key when there is    *)
(* one, and passed through _smooth; the other keys keep their base value.  *)
Merged(s, base, cloud_landmarks, confidence) ==
    LET weight == Weight(confidence)
        used(name) == WellFormed(cloud_landmarks[name])
        c(name) == <<Clamp01(cloud_landmarks[name][1]), Clamp01(cloud_landmarks[name][2])>>
        target(name) == IF base[name] # NoPoint
                        THEN MixPoint(base[name], c(name), weight)
                        ELSE c(name)
        r(name) == Smoothed(s, name, target(name))
    IN  [ema |-> [name \in Names |-> IF used(name) THEN r(name).ema[name] ELSE s.ema[name]],
         updates |-> [name \in Names |->
                         IF used(name) THEN r(name).updates[name] ELSE s.updates[name]],
         out |-> [name \in Names |-> IF used(name) THEN r(name).out ELSE base[name]]]

LocalPoint(name) ==
    IF name = "mouth_center" THEN <<Tenths(5), Tenths(5)>> ELSE <<Tenths(3), Tenths(6)>>

LocalLandmarks == {l \in [Names -> {NoPoint} \cup {LocalPoint(name) : name \in Names}] :
                      \A name \in Names : l[name] \in {NoPoint, LocalPoint(name)}}

InFrame == <<Tenths(7), Tenths(3)>>

OutOfFrame == <<Tenths(12), 0 - Tenths(1)>>

Malformed == <<Tenths(7)>>

CloudLandmarks ==
    [Names -> {NoPoint, InFrame, OutOfFrame}]
        \cup {[name \in Names |-> IF name = "mouth_center" THEN Malformed ELSE InFrame]}

Confidences == {0, 1, 6, 9}

(* What _active_cloud_result gives a cycle, or the second and third        *)
(* argument of a direct call: `dict` says whether the landmarks are a      *)
(* mapping at all.  A negative result has an empty mapping, confidence 0.  *)
CloudResult(dict, landmarks, confidence) ==
    [dict |-> dict, landmarks |-> landmarks, confidence |-> confidence]

NoCloud == CloudResult(FALSE, NoLandmarks, 0)

CloudResults ==
    {CloudResult(TRUE, l, c) : l \in CloudLandmarks \ {NoLandmarks}, c \in Confidences}
        \cup {CloudResult(TRUE, NoLandmarks, 0), NoCloud}

(* One processing cycle of _run, as far as landmarks go: the face detector *)
(* runs when the frame is due (otherwise the last landmarks are reused),   *)
(* then an active remote result is merged in.                              *)
RunCycle(face_due, detected, cloud) ==
    /\ lm_steps + (IF face_due THEN 1 ELSE 0) + (IF cloud.dict THEN 2 ELSE 0) <= MaxSmoothings
    /\ LET s0 == SmoothingState(ema)
           l == IF face_due THEN Processed(s0, detected)
                ELSE [ema |-> ema, updates |-> NoUpdates, out |-> last_landmarks]
           s1 == [ema |-> l.ema, updates |-> l.updates]
           g == IF cloud.dict
                THEN Merged(s1, l.out, cloud.landmarks, cloud.confidence)
                ELSE [ema |-> s1.ema, updates |-> s1.updates, out |-> l.out]
       IN  /\ ema' = g.ema
           /\ last_landmarks' = (IF face_due THEN l.out ELSE last_landmarks)
           /\ lm_ev' = LandmarkEvent("cycle", l.out, cloud, cloud.confidence, g.out,
                                     l.ema, g.updates)
    /\ lm_steps' = lm_steps + (IF face_due THEN 1 ELSE 0) + (IF cloud.dict THEN 2 ELSE 0)
    /\ UNCHANGED <<now, clientVars, ev, accepted, pipeVars, govVars, guideVars, smooth_run,
                   intrVars, arVars, tailVars, camVars, roiVars, lifeVars, cloudVars>>

(* A direct call of _merge_cloud_landmarks. *)
MergeCloudLandmarks(base, cloud) ==
    /\ lm_steps + 2 <= MaxSmoothings
    /\ LET g == IF cloud.dict
                THEN Merged(SmoothingState(ema), base, cloud.landmarks, cloud.confidence)
                ELSE [ema |-> ema, updates |-> NoUpdates, out |-> base]
       IN  /\ ema' = g.ema
           /\ lm_ev' = LandmarkEvent("merge", base, cloud, cloud.confidence, g.out,
                                     ema, g.updates)
    /\ lm_steps' = lm_steps + 2
    /\ UNCHANGED <<now, clientVars, ev, accepted, pipeVars, govVars, guideVars, last_landmarks,
                   smooth_run, intrVars, arVars, tailVars, camVars, roiVars, lifeVars,
                   cloudVars>>

InitLm ==
    /\ now = StartTime
    /\ enabled = FALSE
    /\ InitClient(DEFAULT_RPS, DEFAULT_MIN_INTERVAL_MS)
    /\ use_cloud = FALSE
    /\ InitPipeline
    /\ InitRest
    /\ InitGovernor(APP_CAMERA_WIDTH, DEFAULT_ARUCO_STRIDE)

NextLm ==
    \/ \E face_due \in BOOLEAN : \E detected \in LocalLandmarks : \E cloud \in CloudResults :
          RunCycle(face_due, detected, cloud)
    \/ \E base \in LocalLandmarks : \E cloud \in CloudResults : MergeCloudLandmarks(base, cloud)

SpecLm == InitLm /\ [][NextLm]_vars

(***************************************************************************)
(* C14 helpers: a direct merge call on fresh smoothing state, the weight   *)
(* and the weighted mean as the statement gives them.                      *)
(***************************************************************************)
FreshMerge == lm_ev'.op = "merge" /\ lm_ev'.cloud.dict /\ ema = NoLandmarks

Remote(e, name) == WellFormed(e.cloud.landmarks[name])

StatedWeight(confidence) ==
    IF confidence <= 0 THEN 5
    ELSE IF confidence < 2 THEN 2
    ELSE IF confidence > 8 THEN 8
    ELSE confidence

StatedBlend(l, r, w) ==
    <<(l[1] * (10 - w) + r[1] * w) \div 10, (l[2] * (10 - w) + r[2] * w) \div 10>>

InFramePoint(p) ==
    <<IF p[1] < 0 THEN 0 ELSE IF p[1] > SCALE THEN SCALE ELSE p[1],
      IF p[2] < 0 THEN 0 ELSE IF p[2] > SCALE THEN SCALE ELSE p[2]>>

Between(v, a, b) == (a <= v /\ v <= b) \/ (b <= v /\ v <= a)

(***************************************************************************)
(* C14 as stated: on fresh smoothing state a direct merge returns, for     *)
(* each remote landmark that exists locally, local*(1-w) + remote*w with   *)
(* w the confidence clamped to [0.2, 0.8] (0.5 when not positive); a       *)
(* landmark present only remotely takes the remote value; landmarks        *)
(* present only locally are returned unchanged.                            *)
(***************************************************************************)
C14_AsClaimed ==
    [][FreshMerge =>
        \A name \in Names :
            LET e == lm_ev'
                w == StatedWeight(e.confidence)
            IN  IF ~Remote(e, name) THEN e.out[name] = e.base[name]
                ELSE IF e.base[name] = NoPoint THEN e.out[name] = e.cloud.landmarks[name]
                ELSE e.out[name] = StatedBlend(e.base[name], e.cloud.landmarks[name], w)]_vars

(***************************************************************************)
(* C14: on fresh smoothing state a direct merge returns, for each remote   *)
(* landmark that exists locally, local*(1-w) + r*w where r is the remote   *)
(* point with each coordinate clamped to [0, 1] and w the confidence       *)
(* clamped to [0.2, 0.8] (0.5 when not positive), so each coordinate lies  *)
(* between the local one and r's; a landmark present only remotely takes   *)
(* the value r; landmarks present only locally are returned unchanged.     *)
(***************************************************************************)
C14_BlendsClampedRemote ==
    [][FreshMerge =>
        \A name \in Names :
            LET e == lm_ev'
                w == StatedWeight(e.confidence)
                r == InFramePoint(e.cloud.landmarks[name])
            IN  IF ~Remote(e, name) THEN e.out[name] = e.base[name]
                ELSE IF e.base[name] = NoPoint THEN e.out[name] = r
                ELSE /\ e.out[name] = StatedBlend(e.base[name], r, w)
                     /\ Between(e.out[name][1], e.base[name][1], r[1])
                     /\ Between(e.out[name][2], e.base[name][2], r[2])]_vars

(***************************************************************************)
(* C14 witness: a direct merge on fresh state, with confidence 0.9, of a   *)
(* base holding only mouth_center with a remote result holding an in-frame *)
(* mouth_center and an out-of-frame cheek_left: mouth_center is blended    *)
(* with weight 0.8 and cheek_left is the remote point clamped to the       *)
(* frame.                                                                  *)
(***************************************************************************)
C14_Witness ==
    /\ lm_ev.op = "merge"
    /\ lm_ev.ema_mid = NoLandmarks
    /\ lm_ev.confidence = 9
    /\ lm_ev.base["mouth_center"] = LocalPoint("mouth_center")
    /\ lm_ev.base["cheek_left"] = NoPoint
    /\ lm_ev.cloud.landmarks["mouth_center"] = InFrame
    /\ lm_ev.cloud.landmarks["cheek_left"] = OutOfFrame
    /\ lm_ev.out["mouth_center"] = StatedBlend(LocalPoint("mouth_center"), InFrame, 8)
    /\ lm_ev.out["cheek_left"] = <<SCALE, 0>>

(***************************************************************************)
(* C15 as stated: in one processing cycle the EMA state of each landmark   *)
(* key is written at most once, whatever the source mix.                   *)
(***************************************************************************)
C15_AsClaimed ==
    lm_ev.op = "cycle" => \A name \in Names : lm_ev.updates[name] <= 1

(***************************************************************************)
(* C15 witness: a cycle in which the face detector ran and found           *)
(* mouth_center, a remote result with mouth_center was merged, and the EMA *)
(* state of mouth_center was written twice.                                *)
(***************************************************************************)
C15_Witness ==
    /\ lm_ev.op = "cycle"
    /\ lm_ev.base["mouth_center"] # NoPoint
    /\ lm_ev.cloud.dict
    /\ WellFormed(lm_ev.cloud.landmarks["mouth_center"])
    /\ lm_ev.updates["mouth_center"] = 2
    /\ lm_ev.ema_mid["mouth_center"] # ema["mouth_center"]

(***************************************************************************)
(* C16: merging a negative remote result (an empty landmark mapping) into  *)
(* a cycle is a no-op: the landmarks the cycle uses are the local ones and *)
(* the smoothing state is what local processing left.                      *)
(***************************************************************************)
NegativeMerge == lm_ev.cloud.dict /\ lm_ev.cloud.landmarks = NoLandmarks

C16_NegativeResultIsNoOp ==
    (lm_ev.op \in {"cycle", "merge"} /\ NegativeMerge) =>
        /\ lm_ev.out = lm_ev.base
        /\ ema = lm_ev.ema_mid

(***************************************************************************)
(* C16 witness: a cycle with local landmarks and existing smoothing state  *)
(* into which a negative remote result was merged.                         *)
(***************************************************************************)
C16_Witness ==
    /\ lm_ev.op = "cycle"
    /\ NegativeMerge
    /\ lm_ev.base["mouth_center"] # NoPoint
    /\ ema["mouth_center"] # NoPoint
    /\ ema["cheek_left"] # NoPoint

(***************************************************************************)
(* Direct calls of VisionPipeline._smooth.                                 *)
(***************************************************************************)
SmoothPoints == {LocalPoint("mouth_center"), InFrame, <<Tenths(2), Tenths(9)>>}

Only(name, point) == [n \in Names |-> IF n = name THEN point ELSE NoPoint]

Smooth(name, value) ==
    /\ lm_steps + 1 <= MaxSmoothings
    /\ LET r == Smoothed(SmoothingState(ema), name, value)
       IN  /\ ema' = r.ema
           /\ lm_ev' = LandmarkEvent("smooth", Only(name, value), NoCloud, 0,
                                     Only(name, r.out), ema, r.updates)
    /\ lm_steps' = lm_steps + 1
    /\ smooth_run' = [name |-> name, value |-> value,
                      count |-> IF smooth_run.name = name /\ smooth_run.value = value
                                THEN smooth_run.count + 1 ELSE 1]
    /\ UNCHANGED <<now, clientVars, ev, accepted, pipeVars, govVars, guideVars, last_landmarks,
                   intrVars, arVars, tailVars, camVars, roiVars, lifeVars, cloudVars>>

NextSmooth == \E name \in Names : \E value \in SmoothPoints : Smooth(name, value)

SpecSmooth == InitLm /\ [][NextSmooth]_vars

Dist(a, b) == IF a >= b THEN a - b ELSE b - a

(***************************************************************************)
(* C17: for every landmark key, the first sample given to _smooth is       *)
(* returned unchanged and becomes the state; every later sample c moves    *)
(* the state so that, in each coordinate, its distance to c is 3/5 of what *)
(* it was.  Feeding the same c repeatedly therefore never increases the    *)
(* distance and makes the smoothed value converge to c.                    *)
(***************************************************************************)
C17_FirstSampleThenContraction ==
    [][lm_ev'.op = "smooth" =>
        \A name \in Names :
            lm_ev'.base[name] # NoPoint =>
                LET c == lm_ev'.base[name]
                    out == lm_ev'.out[name]
                IN  /\ ema'[name] = out
                    /\ ema[name] = NoPoint => out = c
                    /\ ema[name] # NoPoint =>
                          \A i \in 1..2 :
                              /\ Dist(out[i], c[i]) * 5 = Dist(ema[name][i], c[i]) * 3
                              /\ Dist(out[i], c[i]) <= Dist(ema[name][i], c[i])]_vars

(***************************************************************************)
(* C17 witness: a key whose first sample was another point has been given  *)
(* the same point c three times in a row; the smoothed value is closer to  *)
(* c than before the last call and has not reached it.                     *)
(***************************************************************************)
C17_Witness ==
    /\ lm_ev.op = "smooth"
    /\ smooth_run.count = 3
    /\ LET name == smooth_run.name
           c == smooth_run.value
       IN  /\ lm_ev.ema_mid[name] # NoPoint
           /\ \A i \in 1..2 :
                 /\ 0 < Dist(ema[name][i], c[i])
                 /\ Dist(ema[name][i], c[i]) < Dist(lm_ev.ema_mid[name][i], c[i])

(***************************************************************************)
(* load_camera_intrinsics.  `file` is what the calibration file is like    *)
(* when the call is made: "missing" (FileStorage does not open), "valid",  *)
(* "no_nodes" (K or dist absent), "node_error" (reading a node raises,     *)
(* inside the try) or "malformed" (the FileStorage constructor itself      *)
(* raises, before the try, so that neither the except nor the finally      *)
(* clause runs).                                                           *)
(***************************************************************************)
FileStates == {"missing", "valid", "no_nodes", "node_error", "malformed"}

Intrinsics ==
    [tried |-> INTRINSICS_TRIED, ok |-> INTRINSICS_OK, k |-> K, dist |-> DIST,
     err |-> INTRINSICS_ERR]

Failed(i, err) == [i EXCEPT !.tried = TRUE, !.ok = FALSE, !.err = err]

Loaded(i, file) ==
    IF i.tried
    THEN [st |-> i, read |-> FALSE, out |-> Outcome(i.k, i.dist, i.ok, i.err)]
    ELSE IF file = "malformed"
    THEN [st |-> i, read |-> TRUE, out |-> RaisedOutcome]
    ELSE IF file = "missing"
    THEN [st |-> Failed(i, "file not found"), read |-> TRUE,
          out |-> Outcome("none", "none", FALSE, "file not found")]
    ELSE IF file = "no_nodes"
    THEN [st |-> Failed(i, "missing K/dist nodes"), read |-> TRUE,
          out |-> Outcome("none", "none", FALSE, "missing K/dist nodes")]
    ELSE IF file = "node_error"
    THEN [st |-> Failed(i, "exception"), read |-> TRUE,
          out |-> Outcome("none", "none", FALSE, "exception")]
    ELSE [st |-> [tried |-> TRUE, ok |-> TRUE, k |-> "matrix", dist |-> "matrix",
                  err |-> "none"],
          read |-> TRUE, out |-> Outcome("matrix", "matrix", TRUE, "none")]

(* The module state and the history after a call that gave r. *)
IntrinsicsBecome(r) ==
    /\ INTRINSICS_TRIED' = r.st.tried
    /\ INTRINSICS_OK' = r.st.ok
    /\ K' = r.st.k
    /\ DIST' = r.st.dist
    /\ INTRINSICS_ERR' = r.st.err
    /\ file_reads' = file_reads + (IF r.read THEN 1 ELSE 0)
    /\ intr_calls' = intr_calls + 1
    /\ intr_ev' = [out |-> r.out, read |-> r.read]
    /\ first_outcome' = (IF intr_calls = 0 THEN r.out ELSE first_outcome)

MaxArCalls == 3

LoadCameraIntrinsics(file) ==
    /\ intr_calls < MaxArCalls
    /\ IntrinsicsBecome(Loaded(Intrinsics, file))
    /\ UNCHANGED <<now, clientVars, ev, accepted, pipeVars, govVars, guideVars, lmVars, arVars,
                   tailVars, camVars, roiVars, lifeVars, cloudVars>>

(***************************************************************************)
(* detect_aruco_anchors.  Pixels and degrees are integers in units of      *)
(* 1/AR_UNIT, with AR_UNIT = 10^MaxArCalls so that MaxArCalls successive   *)
(* EMA steps with a weight in tenths are exact.                            *)
(***************************************************************************)
AR_ALPHA_TENTHS == 4

MIN_INTERVAL_MS == 65

AR_UNIT == 10 ^ MaxArCalls

ArGaps == {30, 70}

SmoothPair(prev, value) ==
    IF prev = NoPoint THEN value
    ELSE <<Mix(prev[1], value[1], AR_ALPHA_TENTHS), Mix(prev[2], value[2], AR_ALPHA_TENTHS)>>

SmoothAngles(prev, value) ==
    IF prev = NoAngles THEN value
    ELSE <<Mix(prev[1], value[1], AR_ALPHA_TENTHS), Mix(prev[2], value[2], AR_ALPHA_TENTHS),
           Mix(prev[3], value[3], AR_ALPHA_TENTHS)>>

Px(x, y) == <<x * AR_UNIT, y * AR_UNIT>>

Deg(yaw, pitch, roll) == <<yaw * AR_UNIT, pitch * AR_UNIT, roll * AR_UNIT>>

(* What detection and pose estimation find in a frame: marker 1 at one of  *)
(* two places, with or without a pose; marker 2 in one place.              *)
Sightings ==
    {s \in [ArIds -> {NotSeen, Marker(Px(100, 200), NoAngles), Marker(Px(300, 100), NoAngles),
                      Marker(Px(100, 200), Deg(10, 0, 0)),
                      Marker(Px(300, 100), Deg(40, 20, 10))}] :
        s[2] \in {NotSeen, Marker(Px(100, 200), NoAngles)}}

IsEmpty(anchors) == \A id \in ArIds : ~anchors[id].seen

Ids(anchors) == {id \in ArIds : anchors[id].seen}

TooSoon(t) == (t - last_ts) < MIN_INTERVAL_MS

DetectArucoAnchors(gap, sighted, file) ==
    /\ ar_calls < MaxArCalls
    /\ INTRINSICS_TRIED => file = "valid"
    /\ now' = now + gap
    /\ ar_calls' = ar_calls + 1
    /\ UNCHANGED <<pose_requested, aruco_available>>
    /\ LET r == Loaded(Intrinsics, file)
           pose_available == pose_requested /\ r.out.ok
           markers == [id \in ArIds |->
                          IF sighted[id].seen /\ ~pose_available
                          THEN Marker(sighted[id].center, NoAngles) ELSE sighted[id]]
           posed(id) == markers[id].seen /\ markers[id].angles # NoAngles
           anchors == [id \in ArIds |->
                          IF ~markers[id].seen THEN NotSeen
                          ELSE Marker(SmoothPair(prev_center[id], markers[id].center),
                                      IF posed(id)
                                      THEN SmoothAngles(prev_angles[id], markers[id].angles)
                                      ELSE NoAngles)]
       IN  IF TooSoon(now') /\ ~IsEmpty(last_anchors)
           THEN /\ IntrinsicsBecome(r)
                /\ ar_ev' = ArEvent("detect", FALSE, r.out.raised, TRUE, NoAnchors,
                                    last_anchors, last_anchors, last_seen)
                /\ UNCHANGED <<prev_center, prev_angles, last_ts, last_anchors, last_seen>>
           ELSE /\ last_ts' = now'
                /\ IF ~aruco_available
                   THEN /\ last_anchors' = NoAnchors
                        /\ ar_ev' = ArEvent("detect", FALSE, FALSE, TooSoon(now'), NoAnchors,
                                            NoAnchors, last_anchors, last_seen)
                        /\ UNCHANGED <<prev_center, prev_angles, last_seen, intrVars>>
                   ELSE /\ IntrinsicsBecome(r)
                        /\ IF r.out.raised
                           THEN /\ ar_ev' = ArEvent("detect", TRUE, TRUE, TooSoon(now'),
                                                    NoAnchors, NoAnchors, last_anchors,
                                                    last_seen)
                                /\ UNCHANGED <<prev_center, prev_angles, last_anchors,
                                               last_seen>>
                           ELSE /\ prev_center' =
                                      [id \in ArIds |->
                                          IF markers[id].seen THEN anchors[id].center
                                          ELSE prev_center[id]]
                                /\ prev_angles' =
                                      [id \in ArIds |->
                                          IF posed(id) THEN anchors[id].angles
                                          ELSE prev_angles[id]]
                                /\ last_anchors' = anchors
                                /\ last_seen' = Ids(markers)
                                /\ ar_ev' = ArEvent("detect", TRUE, FALSE, TooSoon(now'),
                                                    markers, anchors, last_anchors, last_seen)
    /\ UNCHANGED <<clientVars, ev, accepted, pipeVars, govVars, guideVars, lmVars, tailVars,
                   camVars, roiVars, lifeVars, cloudVars>>

InitAr ==
    /\ now = StartTime
    /\ enabled = FALSE
    /\ InitClient(DEFAULT_RPS, DEFAULT_MIN_INTERVAL_MS)
    /\ use_cloud = FALSE
    /\ InitPipeline
    /\ InitGuidance
    /\ InitLandmarks
    /\ InitIntrinsics
    /\ \E pose \in BOOLEAN : \E available \in BOOLEAN : InitAruco(pose, available)
    /\ InitLoopTail(DefaultCycleMs)
    /\ InitCamera
    /\ InitRoi
    /\ InitLife
    /\ InitCloud
    /\ InitGovernor(APP_CAMERA_WIDTH, DEFAULT_ARUCO_STRIDE)

NextAr ==
    \/ \E file \in FileStates : LoadCameraIntrinsics(file)
    \/ \E gap \in ArGaps : \E sighted \in Sightings : \E file \in FileStates :
          DetectArucoAnchors(gap, sighted, file)

SpecAr == InitAr /\ [][NextAr]_vars

(***************************************************************************)
(* C18 as stated: in a detection that ran, a marker id that the previous   *)
(* detection did not see gets as smoothed center and angles exactly the    *)
(* values observed in this detection.                                      *)
(***************************************************************************)
C18_AsClaimed ==
    (ar_ev.op = "detect" /\ ar_ev.detected /\ ~ar_ev.raised) =>
        \A id \in ArIds :
            (ar_ev.observed[id].seen /\ id \notin ar_ev.prev_seen) =>
                /\ ar_ev.anchors[id].center = ar_ev.observed[id].center
                /\ ar_ev.anchors[id].angles = ar_ev.observed[id].angles

(***************************************************************************)
(* C18 witness: marker 1 reappears, with a pose, in a detection made after *)
(* the minimum interval and after a detection that did not see it, and the *)
(* center and the angles returned for it are not the observed ones.        *)
(***************************************************************************)
C18_Witness ==
    /\ ar_ev.op = "detect"
    /\ ar_ev.detected
    /\ ~ar_ev.raised
    /\ ar_ev.observed[1].seen
    /\ ~ar_ev.too_soon
    /\ 1 \notin ar_ev.prev_seen
    /\ ar_ev.observed[1].angles # NoAngles
    /\ ar_ev.anchors[1].center # ar_ev.observed[1].center
    /\ ar_ev.anchors[1].angles # ar_ev.observed[1].angles

(***************************************************************************)
(* C19 as stated: a call made before 65 ms have elapsed since the last     *)
(* detection does not detect and returns the previous result set           *)
(* unchanged, whatever that set is, an empty one included.                 *)
(***************************************************************************)
C19_AsClaimed ==
    (ar_ev.op = "detect" /\ ar_ev.too_soon) =>
        /\ ~ar_ev.detected
        /\ ar_ev.anchors = ar_ev.prev_anchors

(***************************************************************************)
(* C19 witness: a call made before the interval has elapsed, after a       *)
(* detection that found no marker, runs detection and returns a marker.    *)
(***************************************************************************)
C19_Witness ==
    /\ ar_ev.op = "detect"
    /\ ar_ev.too_soon
    /\ IsEmpty(ar_ev.prev_anchors)
    /\ ar_ev.detected
    /\ ~IsEmpty(ar_ev.anchors)

(***************************************************************************)
(* C20 as stated: the calibration file is read at most once, and every     *)
(* call of load_camera_intrinsics gives what the first call gave.          *)
(***************************************************************************)
C20_AsClaimed ==
    intr_calls >= 1 =>
        /\ file_reads <= 1
        /\ intr_ev.out = first_outcome

(***************************************************************************)
(* C20 witness: the first call raised while opening the file, and a later  *)
(* call read the file again and gave a result.                             *)
(***************************************************************************)
C20_Witness ==
    /\ intr_calls >= 2
    /\ first_outcome.raised
    /\ file_reads >= 2
    /\ ~intr_ev.out.raised
    /\ intr_ev.out.ok

(***************************************************************************)
(* The end of a cycle of VisionPipeline._run: the throttled broadcast of   *)
(* the overlay, the hint when no face has been seen for a while, the       *)
(* latency window and the camera watchdog.  A run cycles at one rate,      *)
(* period_ms per cycle; whether the cycle has landmarks, whether face       *)
(* detection is on, the latency it measured and whether a camera can be    *)
(* reopened are inputs.  _adapt_performance, which the cycle calls between *)
(* the window and the watchdog, changes the strides and the face width     *)
(* only and is modelled by AdaptPerformance.                               *)
(***************************************************************************)
OVERLAY_MIN_INTERVAL_MS == 66
NO_FACE_AFTER_MS == 2000
HINT_EVERY_FRAMES == 30
WINDOW_FRAMES == 60
WATCHDOG_MS == 1500
WATCHDOG_EVERY_FRAMES == 30

MaxTailTime == 3200
CyclePeriods == {33, 100}
TailLatencies == {40, 1600}
Reopenings == {"ok", "raises"}

ThrottleOpen(now_ms) == (now_ms - last_overlay_ts_ms) >= OVERLAY_MIN_INTERVAL_MS

NoFaceHintDue(t, count) ==
    /\ no_face_since # <<>>
    /\ (t - no_face_since[1]) > NO_FACE_AFTER_MS
    /\ count % HINT_EVERY_FRAMES = 0

WindowAfter(e2e_ms) ==
    IF latency_window_frames + 1 >= WINDOW_FRAMES THEN 0 ELSE latency_window_frames + 1

WatchdogFires(e2e_ms) ==
    e2e_ms > WATCHDOG_MS /\ WindowAfter(e2e_ms) % WATCHDOG_EVERY_FRAMES = 0

LastTwo(s) == IF Len(s) <= 2 THEN s ELSE SubSeq(s, Len(s) - 1, Len(s))

StallWindowMs == 2100

EndOfCycle(has_landmarks, face, e2e_ms, reopen) ==
    LET t == now + period_ms
        count == frame_count + 1
        regular == ThrottleOpen(t)
        stalled == ~has_landmarks /\ face
        hint == stalled /\ NoFaceHintDue(t, count)
        reset == WatchdogFires(e2e_ms)
        messages == (IF regular THEN <<[t |-> t, kind |-> "overlay"]>> ELSE <<>>)
                    \o (IF hint THEN <<[t |-> t, kind |-> "hint"]>> ELSE <<>>)
    IN  /\ t <= MaxTailTime
        /\ now' = t
        /\ frame_count' = count
        /\ last_overlay_ts_ms' = IF regular THEN t ELSE last_overlay_ts_ms
        /\ no_face_since' = IF stalled
                            THEN (IF no_face_since = <<>> THEN <<t>> ELSE no_face_since)
                            ELSE <<>>
        /\ latency_window_frames' = WindowAfter(e2e_ms)
        /\ sent' = LastTwo(sent \o messages)
        /\ stall_hints' = IF ~stalled \/ no_face_since = <<>> THEN 0
                          ELSE IF hint /\ t - no_face_since[1] <= StallWindowMs
                               THEN stall_hints + 1
                               ELSE stall_hints
        /\ prev_e2e_ms' = tail_ev.e2e_ms
        /\ tail_ev' = [regular |-> regular, hint |-> hint,
                       reset |-> IF ~reset THEN "none"
                                 ELSE IF reopen = "ok" THEN "ok" ELSE "failed",
                       e2e_ms |-> e2e_ms]
        /\ UNCHANGED <<clientVars, ev, accepted, pipeVars, govVars, guideVars, lmVars,
                       intrVars, arVars, period_ms, camVars, roiVars, lifeVars, cloudVars>>

InitTail ==
    /\ now = StartTime
    /\ enabled = FALSE
    /\ InitClient(DEFAULT_RPS, DEFAULT_MIN_INTERVAL_MS)
    /\ use_cloud = FALSE
    /\ InitPipeline
    /\ InitGuidance
    /\ InitLandmarks
    /\ InitIntrinsics
    /\ InitAruco(TRUE, TRUE)
    /\ \E period \in CyclePeriods : InitLoopTail(period)
    /\ InitCamera
    /\ InitRoi
    /\ InitLife
    /\ InitCloud
    /\ InitGovernor(APP_CAMERA_WIDTH, DEFAULT_ARUCO_STRIDE)

NextTail ==
    \E has_landmarks \in BOOLEAN : \E face \in BOOLEAN : \E e2e_ms \in TailLatencies :
        \E reopen \in Reopenings : EndOfCycle(has_landmarks, face, e2e_ms, reopen)

SpecTail == InitTail /\ [][NextTail]_vars

(* C21: any two successive overlay.set messages given to the broadcaster,  *)
(* regular overlays and positioning hints alike, are at least 66 ms apart. *)
C21_AsClaimed ==
    Len(sent) = 2 => sent[2].t - sent[1].t >= OVERLAY_MIN_INTERVAL_MS

(* A cycle that sent the regular overlay and the hint together.            *)
C21_Witness ==
    /\ tail_ev.regular
    /\ tail_ev.hint
    /\ Len(sent) = 2
    /\ sent[1].t = sent[2].t

(* C22: once face detection has been on without landmarks for 2.1 s in a   *)
(* row, exactly one positioning hint has been sent in those 2.1 s, at      *)
(* every rate of the loop.                                                 *)
C22_AsClaimed ==
    (no_face_since # <<>> /\ now - no_face_since[1] >= StallWindowMs) => stall_hints = 1

(* 2.1 s without landmarks at ten cycles a second, and no hint was sent.   *)
C22_Witness ==
    /\ period_ms = 100
    /\ no_face_since # <<>>
    /\ now - no_face_since[1] >= StallWindowMs
    /\ stall_hints = 0

(* C26: the loop closes and reopens the camera only when the latency has   *)
(* been above 1500 ms for consecutive cycles, so at least the cycle before *)
(* the one that resets was above 1500 ms too.                              *)
C26_AsClaimed ==
    tail_ev.reset # "none" => prev_e2e_ms > WATCHDOG_MS

(* A reset in a cycle whose predecessor had an ordinary latency.           *)
C26_Witness ==
    /\ tail_ev.reset # "none"
    /\ tail_ev.e2e_ms > WATCHDOG_MS
    /\ frame_count > 1
    /\ prev_e2e_ms <= WATCHDOG_MS

(***************************************************************************)
(* CameraCapture: its construction, its acquisition thread (_run), a       *)
(* thread that calls read() and a thread that calls close().  The steps of *)
(* the three threads interleave; _frame_lock is the only thing that        *)
(* orders them.  A frame is represented by the stamp that was taken for    *)
(* it; the clock moves on with every stamp.                                *)
(***************************************************************************)
MaxStamps == 4
MaxCloses == 2

UNABLE_TO_OPEN == "unable to open device"
CONFIGURE_FAILED == "configure failed"

ThreadAlive == acq_pc \notin {"none", "ended"}

LockNeverHeld == TRUE

LockAvailable == frame_lock = "free"

SynthesizesNever == FALSE

\* lines 115 and 136: the iteration synthesizes its frame, or asks the device
Synthesizes == cam_mock \/ cam_capture = "none"

\* join(timeout=1.0) returns when the thread has ended, or after a second in
\* which it has not: an iteration lasts that long only inside _capture.read()
JoinReturns == ~ThreadAlive \/ acq_pc = "reading"

Construct(opens, configures, allow_mock) ==

    /\ cam_state = "unbuilt"
    /\ LET failed == ~opens \/ ~configures
           raised == failed /\ ~allow_mock
           error == IF ~opens THEN UNABLE_TO_OPEN ELSE CONFIGURE_FAILED
       IN  /\ cam_state' = IF raised THEN "raised" ELSE IF failed THEN "mock" ELSE "device"
           /\ cam_last_error' = IF failed THEN error ELSE "none"
           /\ cam_mock' = (failed /\ allow_mock)
           /\ cam_capture' = IF ~opens THEN "none"
                             ELSE IF failed /\ allow_mock THEN "none"
                             ELSE "open"
           /\ health_camera' = IF raised THEN health_camera
                               ELSE IF failed THEN "mock" ELSE "on"
           /\ health_camera_error' = IF raised THEN health_camera_error
                                     ELSE IF failed THEN error ELSE "none"
           /\ acq_pc' = IF raised THEN "none" ELSE "top"
    /\ UNCHANGED <<cam_stop_event, acq_ts, frame_lock, latest_frame, latest_ts,
                   reader_pc, reader_frame, close_pc, published, read_ev, prev_read_ts,
                   closes, close_ev>>
    /\ UNCHANGED <<now, clientVars, ev, accepted, pipeVars, govVars, guideVars, lmVars, intrVars, arVars, tailVars,
                   roiVars, lifeVars, cloudVars>>

AcqTop ==

    /\ acq_pc = "top"
    /\ IF cam_stop_event
       THEN /\ acq_pc' = "ended"
            /\ UNCHANGED <<now, acq_ts, health_camera, health_camera_error>>
       ELSE /\ now < StartTime + MaxStamps
            /\ now' = now + 1
            /\ acq_ts' = now'
            /\ IF Synthesizes
               THEN /\ health_camera' = "mock"
                    /\ health_camera_error' = cam_last_error
                    /\ acq_pc' = "ready"
               ELSE /\ acq_pc' = "reading"
                    /\ UNCHANGED <<health_camera, health_camera_error>>
    /\ UNCHANGED <<cam_state, cam_mock, cam_last_error, cam_capture, cam_stop_event,
                   frame_lock, latest_frame, latest_ts, reader_pc, reader_frame,
                   close_pc, published, read_ev, prev_read_ts, closes, close_ev>>
    /\ UNCHANGED <<clientVars, ev, accepted, pipeVars, govVars, guideVars, lmVars, intrVars, arVars, tailVars,
                   roiVars, lifeVars, cloudVars>>

AcqRead(ok) ==

    /\ acq_pc = "reading"
    /\ ok => cam_capture = "open"
    /\ IF ok
       THEN /\ acq_pc' = "ready"
            /\ health_camera' = "on"
            /\ health_camera_error' = "none"
       ELSE /\ acq_pc' = "top"
            /\ UNCHANGED <<health_camera, health_camera_error>>
    /\ UNCHANGED <<cam_state, cam_mock, cam_last_error, cam_capture, cam_stop_event,
                   acq_ts, frame_lock, latest_frame, latest_ts, reader_pc, reader_frame,
                   close_pc, published, read_ev, prev_read_ts, closes, close_ev>>
    /\ UNCHANGED <<now, clientVars, ev, accepted, pipeVars, govVars, guideVars, lmVars, intrVars, arVars, tailVars,
                   roiVars, lifeVars, cloudVars>>

AcqLock ==

    /\ acq_pc = "ready"
    /\ LockAvailable
    /\ frame_lock' = "acq"
    /\ acq_pc' = "locked"
    /\ UNCHANGED <<cam_state, cam_mock, cam_last_error, cam_capture, cam_stop_event,
                   acq_ts, latest_frame, latest_ts, reader_pc, reader_frame, close_pc,
                   health_camera, health_camera_error, published, read_ev, prev_read_ts,
                   closes, close_ev>>
    /\ UNCHANGED <<now, clientVars, ev, accepted, pipeVars, govVars, guideVars, lmVars, intrVars, arVars, tailVars,
                   roiVars, lifeVars, cloudVars>>

AcqWriteFrame ==

    /\ acq_pc = "locked"
    /\ latest_frame' = acq_ts
    /\ acq_pc' = "wrote_frame"
    /\ UNCHANGED <<cam_state, cam_mock, cam_last_error, cam_capture, cam_stop_event,
                   acq_ts, frame_lock, latest_ts, reader_pc, reader_frame, close_pc,
                   health_camera, health_camera_error, published, read_ev, prev_read_ts,
                   closes, close_ev>>
    /\ UNCHANGED <<now, clientVars, ev, accepted, pipeVars, govVars, guideVars, lmVars, intrVars, arVars, tailVars,
                   roiVars, lifeVars, cloudVars>>

AcqWriteTs ==

    /\ acq_pc = "wrote_frame"
    /\ latest_ts' = acq_ts
    /\ acq_pc' = "wrote_ts"
    /\ UNCHANGED <<cam_state, cam_mock, cam_last_error, cam_capture, cam_stop_event,
                   acq_ts, frame_lock, latest_frame, reader_pc, reader_frame, close_pc,
                   health_camera, health_camera_error, published, read_ev, prev_read_ts,
                   closes, close_ev>>
    /\ UNCHANGED <<now, clientVars, ev, accepted, pipeVars, govVars, guideVars, lmVars, intrVars, arVars, tailVars,
                   roiVars, lifeVars, cloudVars>>

AcqUnlock ==

    /\ acq_pc = "wrote_ts"
    /\ frame_lock' = IF frame_lock = "acq" THEN "free" ELSE frame_lock
    /\ published' = published + 1
    /\ acq_pc' = "top"
    /\ UNCHANGED <<cam_state, cam_mock, cam_last_error, cam_capture, cam_stop_event,
                   acq_ts, latest_frame, latest_ts, reader_pc, reader_frame, close_pc,
                   health_camera, health_camera_error, read_ev, prev_read_ts, closes,
                   close_ev>>
    /\ UNCHANGED <<now, clientVars, ev, accepted, pipeVars, govVars, guideVars, lmVars, intrVars, arVars, tailVars,
                   roiVars, lifeVars, cloudVars>>

ReadLock ==

    /\ cam_state \in {"device", "mock"}
    /\ reader_pc = "idle"
    /\ LockAvailable
    /\ frame_lock' = "reader"
    /\ reader_pc' = "check"
    /\ UNCHANGED <<cam_state, cam_mock, cam_last_error, cam_capture, cam_stop_event,
                   acq_pc, acq_ts, latest_frame, latest_ts, reader_frame, close_pc,
                   health_camera, health_camera_error, published, read_ev, prev_read_ts,
                   closes, close_ev>>
    /\ UNCHANGED <<now, clientVars, ev, accepted, pipeVars, govVars, guideVars, lmVars, intrVars, arVars, tailVars,
                   roiVars, lifeVars, cloudVars>>

ReadCheck ==

    /\ reader_pc = "check"
    /\ IF latest_frame = 0 \/ latest_ts = 0
       THEN /\ read_ev' = [ok |-> FALSE, frame |-> 0, ts |-> 0, published |-> published]
            /\ frame_lock' = IF frame_lock = "reader" THEN "free" ELSE frame_lock
            /\ reader_pc' = "idle"
            /\ UNCHANGED reader_frame
       ELSE /\ reader_frame' = latest_frame
            /\ reader_pc' = "copied"
            /\ UNCHANGED <<read_ev, frame_lock>>
    /\ UNCHANGED <<cam_state, cam_mock, cam_last_error, cam_capture, cam_stop_event,
                   acq_pc, acq_ts, latest_frame, latest_ts, close_pc, health_camera,
                   health_camera_error, published, prev_read_ts, closes, close_ev>>
    /\ UNCHANGED <<now, clientVars, ev, accepted, pipeVars, govVars, guideVars, lmVars, intrVars, arVars, tailVars,
                   roiVars, lifeVars, cloudVars>>

ReadReturn ==

    /\ reader_pc = "copied"
    /\ read_ev' = [ok |-> TRUE, frame |-> reader_frame, ts |-> latest_ts,
                   published |-> published]
    /\ prev_read_ts' = IF read_ev.ok THEN read_ev.ts ELSE prev_read_ts
    /\ frame_lock' = IF frame_lock = "reader" THEN "free" ELSE frame_lock
    /\ reader_pc' = "idle"
    /\ UNCHANGED <<cam_state, cam_mock, cam_last_error, cam_capture, cam_stop_event,
                   acq_pc, acq_ts, latest_frame, latest_ts, reader_frame, close_pc,
                   health_camera, health_camera_error, published, closes, close_ev>>
    /\ UNCHANGED <<now, clientVars, ev, accepted, pipeVars, govVars, guideVars, lmVars, intrVars, arVars, tailVars,
                   roiVars, lifeVars, cloudVars>>

CloseBegin ==

    /\ cam_state \in {"device", "mock"}
    /\ close_pc = "idle"
    /\ closes < MaxCloses
    /\ cam_stop_event' = TRUE
    /\ close_pc' = IF ThreadAlive THEN "join" ELSE "release"
    /\ UNCHANGED <<cam_state, cam_mock, cam_last_error, cam_capture, acq_pc, acq_ts,
                   frame_lock, latest_frame, latest_ts, reader_pc, reader_frame,
                   health_camera, health_camera_error, published, read_ev, prev_read_ts,
                   closes, close_ev>>
    /\ UNCHANGED <<now, clientVars, ev, accepted, pipeVars, govVars, guideVars, lmVars, intrVars, arVars, tailVars,
                   roiVars, lifeVars, cloudVars>>

CloseJoin ==

    /\ close_pc = "join"
    /\ JoinReturns
    /\ close_pc' = "release"
    /\ UNCHANGED <<cam_state, cam_mock, cam_last_error, cam_capture, cam_stop_event,
                   acq_pc, acq_ts, frame_lock, latest_frame, latest_ts, reader_pc,
                   reader_frame, health_camera, health_camera_error, published, read_ev,
                   prev_read_ts, closes, close_ev>>
    /\ UNCHANGED <<now, clientVars, ev, accepted, pipeVars, govVars, guideVars, lmVars, intrVars, arVars, tailVars,
                   roiVars, lifeVars, cloudVars>>

CloseRelease ==

    /\ close_pc = "release"
    /\ cam_capture' = IF cam_capture = "open" THEN "released" ELSE cam_capture
    /\ health_camera' = "off"
    /\ closes' = closes + 1
    /\ close_ev' = [thread_alive |-> ThreadAlive,
                    released_alive |-> cam_capture = "open" /\ ThreadAlive,
                    capture |-> cam_capture']
    /\ close_pc' = "idle"
    /\ UNCHANGED <<cam_state, cam_mock, cam_last_error, cam_stop_event, acq_pc, acq_ts,
                   frame_lock, latest_frame, latest_ts, reader_pc, reader_frame,
                   health_camera_error, published, read_ev, prev_read_ts>>
    /\ UNCHANGED <<now, clientVars, ev, accepted, pipeVars, govVars, guideVars, lmVars, intrVars, arVars, tailVars,
                   roiVars, lifeVars, cloudVars>>

InitCam ==
    /\ now = StartTime
    /\ enabled = FALSE
    /\ InitClient(DEFAULT_RPS, DEFAULT_MIN_INTERVAL_MS)
    /\ use_cloud = FALSE
    /\ InitPipeline
    /\ InitRest
    /\ InitGovernor(APP_CAMERA_WIDTH, DEFAULT_ARUCO_STRIDE)

NextCam ==
    \/ \E opens \in BOOLEAN : \E configures \in BOOLEAN : \E allow_mock \in BOOLEAN :
           Construct(opens, configures, allow_mock)
    \/ AcqTop
    \/ \E ok \in BOOLEAN : AcqRead(ok)
    \/ AcqLock
    \/ AcqWriteFrame
    \/ AcqWriteTs
    \/ AcqUnlock
    \/ ReadLock
    \/ ReadCheck
    \/ ReadReturn
    \/ CloseBegin
    \/ CloseJoin
    \/ CloseRelease

SpecCam == InitCam /\ [][NextCam]_vars

(* C23: when no backend opens the device and mock is allowed, the capture  *)
(* is in mock mode, health shows camera "mock" until a close() returns and *)
(* keeps the error string, the acquisition thread publishes a frame in     *)
(* every iteration and ends only after close() has set the stop event;     *)
(* when mock is not allowed, construction raises and there is no thread.   *)
C23_MockOrFail ==
    /\ (cam_state = "mock" /\ cam_last_error = UNABLE_TO_OPEN) =>
           /\ cam_mock
           /\ health_camera_error = UNABLE_TO_OPEN
           /\ (closes = 0 => health_camera = "mock")
           /\ acq_pc # "none"
           /\ (acq_pc = "top" => published = now - StartTime)
           /\ (acq_pc = "ended" => cam_stop_event)
           /\ (cam_stop_event => (close_pc # "idle" \/ closes > 0))
    /\ (cam_state = "raised" /\ cam_last_error = UNABLE_TO_OPEN) =>
           /\ acq_pc = "none"
           /\ published = 0

(* A mock capture that has published several frames and is not closed.     *)
C23_Witness ==
    /\ cam_state = "mock"
    /\ cam_last_error = UNABLE_TO_OPEN
    /\ published >= 3
    /\ closes = 0
    /\ close_pc = "idle"

(* C24: read() is not ready exactly as long as nothing has been published; *)
(* a read that returns gives a frame and the timestamp published with that *)
(* frame, and a timestamp not below that of the read before.               *)
C24_ConsistentReads ==
    /\ read_ev.ok => read_ev.published >= 1
    /\ ~read_ev.ok => read_ev.published = 0
    /\ read_ev.ok => read_ev.frame = read_ev.ts
    /\ read_ev.ok => read_ev.ts >= prev_read_ts

(* Two reads that returned different frames, the acquisition thread in the *)
(* middle of an iteration.                                                 *)
C24_Witness ==
    /\ read_ev.ok
    /\ prev_read_ts > 0
    /\ read_ev.ts > prev_read_ts
    /\ acq_pc = "ready"

(* C25: when a close() returns, the acquisition thread has ended, and the  *)
(* device was not released while the thread was alive.                     *)
C25_AsClaimed ==
    closes > 0 => (~close_ev.thread_alive /\ ~close_ev.released_alive)

(* close() returned after releasing the device under a thread that was     *)
(* still inside _capture.read().                                           *)
C25_Witness ==
    /\ closes > 0
    /\ close_ev.released_alive
    /\ close_ev.capture = "released"

(***************************************************************************)
(* The region of interest: _apply_roi crops the frame around the face box  *)
(* that _process_landmarks stored, and _run scales the crop down to the    *)
(* governor's face width before detection.  A box is <<x, y, w, h>> in     *)
(* pixels, a crop <<x1, y1, x2, y2>>.  The face is where the landmarks of  *)
(* the detector lie in the camera frame; positions are exact, and the      *)
(* conversions truncate as int() does.  The detector can find a face only  *)
(* when it lies in the crop it is given.                                   *)
(***************************************************************************)
FRAME_W == APP_CAMERA_WIDTH
FRAME_H == 720
PAD_DIVISOR == 5

Faces == {<<600, 200, 200, 200>>, <<0, 0, 100, 100>>, <<1100, 560, 180, 160>>,
          <<200, 100, 800, 500>>}

RoiLatencies == {100, 1201}
RoiCycleMs == 1400

FullFrame == <<0, 0, FRAME_W, FRAME_H>>

\* _apply_roi on a frame of the camera
ApplyRoi(bbox) ==
    IF bbox = NoBox THEN FullFrame
    ELSE LET x == bbox[1]
             y == bbox[2]
             w == bbox[3]
             h == bbox[4]
             pad_w == w \div PAD_DIVISOR
             pad_h == h \div PAD_DIVISOR
         IN  <<Max(0, x - pad_w), Max(0, y - pad_h),
               Min(FRAME_W, x + w + pad_w), Min(FRAME_H, y + h + pad_h)>>

Inside(box, crop) ==
    /\ crop[1] <= box[1]
    /\ box[1] + box[3] <= crop[3]
    /\ crop[2] <= box[2]
    /\ box[2] + box[4] <= crop[4]

\* lines 297-304: the frame given to the detector is the crop, scaled down to
\* the face width when it is wider (cv2.resize rounds the new height)
FaceFrame(crop, target_w) ==
    LET rw == crop[3] - crop[1]
        rh == crop[4] - crop[2]
    IN  IF rw > target_w
        THEN [w |-> target_w, h |-> (2 * rh * target_w + rw) \div (2 * rw), scaled |-> TRUE]
        ELSE [w |-> rw, h |-> rh, scaled |-> FALSE]

\* lines 602-619: the box of the landmarks, in pixels of the frame the
\* detector was given, moved by the offset of the crop
FaceBox(face, crop, target_w) ==
    LET rw == crop[3] - crop[1]
        rh == crop[4] - crop[2]
        ff == FaceFrame(crop, target_w)
        bbox_x == ((face[1] - crop[1]) * ff.w) \div rw
        bbox_y == ((face[2] - crop[2]) * ff.h) \div rh
        bbox_w == ((face[1] + face[3] - crop[1]) * ff.w) \div rw - bbox_x
        bbox_h == ((face[2] + face[4] - crop[2]) * ff.h) \div rh - bbox_y
    IN  <<bbox_x + crop[1], bbox_y + crop[2], bbox_w, bbox_h>>

\* a landmark of the face: the pixel of the frame at the middle of the face
Landmark(face) == <<face[1] + face[3] \div 2, face[2] + face[4] \div 2>>

\* lines 643-646: the detector gives the landmark as a fraction (avg_x, avg_y)
\* of the frame it was handed; the code reports
\* ((avg_x * roi_w + x_offset) / frame_w, (avg_y * roi_h + y_offset) / frame_h)
\* with roi_w, roi_h the size of the frame the detector was handed.  The
\* numerators are kept exact here by multiplying them with the size of the
\* crop: for a landmark at pixel p of the camera frame avg_x is
\* (p[1] - x_offset) / rw.
FullFrameMark(p, crop, target_w) ==
    LET rw == crop[3] - crop[1]
        rh == crop[4] - crop[2]
        ff == FaceFrame(crop, target_w)
    IN  <<(p[1] - crop[1]) * ff.w + crop[1] * rw,
          (p[2] - crop[2]) * ff.h + crop[2] * rh>>

\* the position the landmark has in the camera frame, with the same factors
TrueMark(p, crop) ==
    <<p[1] * (crop[3] - crop[1]), p[2] * (crop[4] - crop[2])>>

RoiCycle(face, process_face, sees) ==
    LET crop == ApplyRoi(last_face_bbox)
        found == process_face /\ sees /\ face # NoBox /\ Inside(face, crop)
    IN  /\ last_face_bbox' = IF ~process_face THEN last_face_bbox
                             ELSE IF found THEN FaceBox(face, crop, face_target_w)
                             ELSE NoBox
        /\ known_face' = IF ~process_face THEN known_face
                         ELSE IF found THEN face
                         ELSE NoBox
        /\ roi_ev' = [crop |-> crop, ran |-> process_face, found |-> found,
                      scaled |-> process_face /\ FaceFrame(crop, face_target_w).scaled,
                      mark |-> IF found THEN Landmark(face) ELSE <<>>,
                      full |-> IF found
                               THEN FullFrameMark(Landmark(face), crop, face_target_w)
                               ELSE <<>>]
        /\ UNCHANGED <<now, clientVars, ev, accepted, pipeVars, govVars, guideVars, lmVars,
                       intrVars, arVars, tailVars, camVars, lifeVars, cloudVars>>

InitRoiSpec ==
    /\ now = StartTime
    /\ enabled = FALSE
    /\ InitClient(DEFAULT_RPS, DEFAULT_MIN_INTERVAL_MS)
    /\ use_cloud = FALSE
    /\ InitPipeline
    /\ InitRest
    /\ InitGovernor(APP_CAMERA_WIDTH, DEFAULT_ARUCO_STRIDE)

NextRoi ==
    \/ \E face \in Faces \cup {NoBox} : \E process_face \in BOOLEAN : \E sees \in BOOLEAN :
           RoiCycle(face, process_face, sees)
    \/ \E e2e_ms \in RoiLatencies : AdaptPerformance(e2e_ms, RoiCycleMs)

SpecRoi == InitRoiSpec /\ [][NextRoi]_vars

\* the crop the claim describes: the face as last found, a fifth of its size
\* added on every side, cut to the frame
GrownFace ==
    LET x == known_face[1]
        y == known_face[2]
        w == known_face[3]
        h == known_face[4]
    IN  <<Max(0, x - w \div PAD_DIVISOR), Max(0, y - h \div PAD_DIVISOR),
          Min(FRAME_W, x + w + w \div PAD_DIVISOR),
          Min(FRAME_H, y + h + h \div PAD_DIVISOR)>>

(* C29: after a cycle whose face detection ran and found nothing the next  *)
(* crop is the whole frame; a crop around a stored box is the face as last *)
(* found, grown by 20% and cut to the frame, and lies within the frame.    *)
C29_AsClaimed ==
    LET next == ApplyRoi(last_face_bbox)
    IN  /\ (roi_ev.ran /\ ~roi_ev.found) => next = FullFrame
        /\ last_face_bbox # NoBox =>
               /\ next = GrownFace
               /\ 0 <= next[1] /\ next[1] <= next[3] /\ next[3] <= FRAME_W
               /\ 0 <= next[2] /\ next[2] <= next[4] /\ next[4] <= FRAME_H

(* The face was found in a frame that had been scaled down, and the next   *)
(* crop does not contain it.                                               *)
C29_Witness ==
    /\ roi_ev.found
    /\ roi_ev.scaled
    /\ ~Inside(known_face, ApplyRoi(last_face_bbox))

(* C36: a landmark found in a crop is reported at its position in the      *)
(* camera frame, ((u*w + x1)/W, (v*h + y1)/H) for the fraction (u, v) of   *)
(* the crop of offset (x1, y1) and size (w, h), and the stored face box is *)
(* the face in pixels of the camera frame, whatever the face target width, *)
(* scaled-down crops included.                                             *)
C36_AsClaimed ==
    roi_ev.found =>
        /\ roi_ev.full = TrueMark(roi_ev.mark, roi_ev.crop)
        /\ last_face_bbox = known_face

(* A face was found in a crop that had been scaled down, its landmark is   *)
(* not at the corner of the crop, and the reported position is not the     *)
(* landmark's.                                                             *)
C36_Witness ==
    /\ roi_ev.found
    /\ roi_ev.scaled
    /\ roi_ev.mark[1] > roi_ev.crop[1]
    /\ roi_ev.full # TrueMark(roi_ev.mark, roi_ev.crop)

(***************************************************************************)
(* The life of the pipeline: start() and stop(), called one after the      *)
(* other by the application, the loop threads that start() creates, and    *)
(* the cameras the pipeline constructs (the first in __init__, the others  *)
(* in the watchdog).  A loop thread moves through _run position by         *)
(* position; whether the camera has a frame and whether the watchdog fires *)
(* at the end of a cycle (WatchdogFires) are inputs.  close() of a camera  *)
(* is one step here; CloseBegin, CloseJoin and CloseRelease model it in    *)
(* detail.                                                                 *)
(***************************************************************************)
Alive(l) == loops[l] \notin {"unborn", "exited"}

\* where a loop thread can stay longer than the two seconds stop() waits
LongPositions == {"body", "wd_close", "wd_open"}

\* Thread.join(timeout=2.0): the thread has ended, or the time is up
LoopJoinReturns == ~Alive(thread) \/ loops[thread] \in LongPositions

\* CameraCapture.close(): the stop event, the join of at most a second, the
\* release; blocked = the acquisition thread stays inside _capture.read()
Closed(c, blocked) ==
    [thread |-> IF c.thread = "alive" /\ ~(blocked /\ c.device = "open")
                THEN "ended" ELSE c.thread,
     device |-> IF c.device = "open" THEN "released" ELSE c.device,
     stopped |-> TRUE]

LeftBehind(was_running, loops_then, cams_then) ==
    [was_running |-> was_running,
     loop_alive |-> \E l \in LoopIds : loops_then[l] \notin {"unborn", "exited"},
     cam_alive |-> \E c \in CamIds : cams_then[c].thread = "alive",
     device_open |-> \E c \in CamIds : cams_then[c].device = "open"]

Unborn == {l \in LoopIds : loops[l] = "unborn"}

Unbuilt == {c \in CamIds : cams[c] = NoCam}

StartCall ==

    /\ caller_pc = "idle"
    /\ ~running
    /\ Unborn # {}
    /\ LET l == CHOOSE n \in Unborn : \A o \in Unborn : n <= o
       IN  /\ running' = TRUE
           /\ stop_event' = FALSE
           /\ thread' = l
           /\ loops' = [loops EXCEPT ![l] = "top"]
    /\ UNCHANGED <<caller_pc, cams, camera, signaled, late_cycles, stop_returns, life_ev>>
    /\ UNCHANGED <<loop_pc, stop_pc, cloud_executor, executor_shutdown, cloud_future, cloud_latest, use_cloud, job_state, collected>>
    /\ UNCHANGED <<now, clientVars, ev, accepted, govVars, guideVars, lmVars, intrVars, arVars, tailVars, camVars, roiVars,
                   cloudVars>>

StopCall ==

    /\ caller_pc = "idle"
    /\ stop_returns < MaxStops
    /\ IF ~running
       THEN /\ stop_returns' = stop_returns + 1
            /\ life_ev' = LeftBehind(FALSE, loops, cams)
            /\ UNCHANGED <<running, stop_event, signaled, caller_pc>>
       ELSE /\ running' = FALSE
            /\ stop_event' = TRUE
            /\ signaled' = [l \in LoopIds |-> signaled[l] \/ Alive(l)]
            /\ caller_pc' = IF thread # 0 /\ Alive(thread) THEN "join" ELSE "close"
            /\ UNCHANGED <<stop_returns, life_ev>>
    /\ UNCHANGED <<loops, thread, cams, camera, late_cycles>>
    /\ UNCHANGED <<loop_pc, stop_pc, cloud_executor, executor_shutdown, cloud_future, cloud_latest, use_cloud, job_state, collected>>
    /\ UNCHANGED <<now, clientVars, ev, accepted, govVars, guideVars, lmVars, intrVars, arVars, tailVars, camVars, roiVars,
                   cloudVars>>

StopJoinThread ==

    /\ caller_pc = "join"
    /\ LoopJoinReturns
    /\ caller_pc' = "close"
    /\ UNCHANGED <<running, stop_event, loops, thread, cams, camera, signaled,
                   late_cycles, stop_returns, life_ev>>
    /\ UNCHANGED <<loop_pc, stop_pc, cloud_executor, executor_shutdown, cloud_future, cloud_latest, use_cloud, job_state, collected>>
    /\ UNCHANGED <<now, clientVars, ev, accepted, govVars, guideVars, lmVars, intrVars, arVars, tailVars, camVars, roiVars,
                   cloudVars>>

StopCloseCamera(blocked) ==

    /\ caller_pc = "close"
    /\ cams' = [cams EXCEPT ![camera] = Closed(cams[camera], blocked)]
    /\ stop_returns' = stop_returns + 1
    /\ life_ev' = LeftBehind(TRUE, loops, cams')
    /\ caller_pc' = "idle"
    /\ UNCHANGED <<running, stop_event, loops, thread, camera, signaled, late_cycles>>
    /\ UNCHANGED <<loop_pc, stop_pc, cloud_executor, executor_shutdown, cloud_future, cloud_latest, use_cloud, job_state, collected>>
    /\ UNCHANGED <<now, clientVars, ev, accepted, govVars, guideVars, lmVars, intrVars, arVars, tailVars, camVars, roiVars,
                   cloudVars>>

RunTop(l) ==

    /\ loops[l] = "top"
    /\ IF running /\ ~stop_event
       THEN /\ loops' = [loops EXCEPT ![l] = "read"]
            /\ late_cycles' = [late_cycles EXCEPT ![l] = IF signaled[l] THEN 1 ELSE @]
       ELSE /\ loops' = [loops EXCEPT ![l] = "exited"]
            /\ UNCHANGED late_cycles
    /\ UNCHANGED <<running, stop_event, thread, caller_pc, cams, camera, signaled,
                   stop_returns, life_ev>>
    /\ UNCHANGED <<loop_pc, stop_pc, cloud_executor, executor_shutdown, cloud_future, cloud_latest, use_cloud, job_state, collected>>
    /\ UNCHANGED <<now, clientVars, ev, accepted, govVars, guideVars, lmVars, intrVars, arVars, tailVars, camVars, roiVars,
                   cloudVars>>

RunRead(l, ready) ==

    /\ loops[l] = "read"
    /\ loops' = [loops EXCEPT ![l] = IF ready THEN "body" ELSE "pause"]
    /\ UNCHANGED <<running, stop_event, thread, caller_pc, cams, camera, signaled,
                   late_cycles, stop_returns, life_ev>>
    /\ UNCHANGED <<loop_pc, stop_pc, cloud_executor, executor_shutdown, cloud_future, cloud_latest, use_cloud, job_state, collected>>
    /\ UNCHANGED <<now, clientVars, ev, accepted, govVars, guideVars, lmVars, intrVars, arVars, tailVars, camVars, roiVars,
                   cloudVars>>

RunPause(l) ==

    /\ loops[l] = "pause"
    /\ loops' = [loops EXCEPT ![l] = IF stop_event THEN "exited" ELSE "top"]
    /\ UNCHANGED <<running, stop_event, thread, caller_pc, cams, camera, signaled,
                   late_cycles, stop_returns, life_ev>>
    /\ UNCHANGED <<loop_pc, stop_pc, cloud_executor, executor_shutdown, cloud_future, cloud_latest, use_cloud, job_state, collected>>
    /\ UNCHANGED <<now, clientVars, ev, accepted, govVars, guideVars, lmVars, intrVars, arVars, tailVars, camVars, roiVars,
                   cloudVars>>

RunBody(l, fires) ==

    /\ loops[l] = "body"
    /\ fires => Unbuilt # {}
    /\ loops' = [loops EXCEPT ![l] = IF fires THEN "wd_close" ELSE "top"]
    /\ UNCHANGED <<running, stop_event, thread, caller_pc, cams, camera, signaled,
                   late_cycles, stop_returns, life_ev>>
    /\ UNCHANGED <<loop_pc, stop_pc, cloud_executor, executor_shutdown, cloud_future, cloud_latest, use_cloud, job_state, collected>>
    /\ UNCHANGED <<now, clientVars, ev, accepted, govVars, guideVars, lmVars, intrVars, arVars, tailVars, camVars, roiVars,
                   cloudVars>>

RunWatchdogClose(l, blocked) ==

    /\ loops[l] = "wd_close"
    /\ cams' = [cams EXCEPT ![camera] = Closed(cams[camera], blocked)]
    /\ loops' = [loops EXCEPT ![l] = "wd_open"]
    /\ UNCHANGED <<running, stop_event, thread, caller_pc, camera, signaled, late_cycles,
                   stop_returns, life_ev>>
    /\ UNCHANGED <<loop_pc, stop_pc, cloud_executor, executor_shutdown, cloud_future, cloud_latest, use_cloud, job_state, collected>>
    /\ UNCHANGED <<now, clientVars, ev, accepted, govVars, guideVars, lmVars, intrVars, arVars, tailVars, camVars, roiVars,
                   cloudVars>>

RunWatchdogOpen(l, opens) ==

    /\ loops[l] = "wd_open"
    /\ opens => Unbuilt # {}
    /\ IF opens
       THEN LET c == CHOOSE n \in Unbuilt : \A o \in Unbuilt : n <= o
            IN  /\ cams' = [cams EXCEPT ![c] = NewCam]
                /\ camera' = c
       ELSE UNCHANGED <<cams, camera>>
    /\ loops' = [loops EXCEPT ![l] = "top"]
    /\ UNCHANGED <<running, stop_event, thread, caller_pc, signaled, late_cycles,
                   stop_returns, life_ev>>
    /\ UNCHANGED <<loop_pc, stop_pc, cloud_executor, executor_shutdown, cloud_future, cloud_latest, use_cloud, job_state, collected>>
    /\ UNCHANGED <<now, clientVars, ev, accepted, govVars, guideVars, lmVars, intrVars, arVars, tailVars, camVars, roiVars,
                   cloudVars>>

CamThreadEnds(c) ==

    /\ cams[c].thread = "alive"
    /\ cams[c].stopped
    /\ cams' = [cams EXCEPT ![c].thread = "ended"]
    /\ UNCHANGED <<running, stop_event, loops, thread, caller_pc, camera, signaled,
                   late_cycles, stop_returns, life_ev>>
    /\ UNCHANGED <<loop_pc, stop_pc, cloud_executor, executor_shutdown, cloud_future, cloud_latest, use_cloud, job_state, collected>>
    /\ UNCHANGED <<now, clientVars, ev, accepted, govVars, guideVars, lmVars, intrVars, arVars, tailVars, camVars, roiVars,
                   cloudVars>>

InitLifeSpec ==
    /\ now = StartTime
    /\ enabled = FALSE
    /\ InitClient(DEFAULT_RPS, DEFAULT_MIN_INTERVAL_MS)
    /\ use_cloud = FALSE
    /\ InitPipeline
    /\ InitRest
    /\ InitGovernor(APP_CAMERA_WIDTH, DEFAULT_ARUCO_STRIDE)

NextLife ==
    \/ StartCall
    \/ StopCall
    \/ StopJoinThread
    \/ \E blocked \in BOOLEAN : StopCloseCamera(blocked)
    \/ \E l \in LoopIds : RunTop(l)
    \/ \E l \in LoopIds : \E ready \in BOOLEAN : RunRead(l, ready)
    \/ \E l \in LoopIds : RunPause(l)
    \/ \E l \in LoopIds : \E fires \in BOOLEAN : RunBody(l, fires)
    \/ \E l \in LoopIds : \E blocked \in BOOLEAN : RunWatchdogClose(l, blocked)
    \/ \E l \in LoopIds : \E opens \in BOOLEAN : RunWatchdogOpen(l, opens)
    \/ \E c \in CamIds : CamThreadEnds(c)

SpecLife == InitLifeSpec /\ [][NextLife]_vars

(* C27: a loop thread begins no cycle after stop() has set the stop event  *)
(* during its life: it finishes the cycle it is in, or its pause after a   *)
(* camera that was not ready, and exits.                                   *)
C27_AsClaimed ==
    \A l \in LoopIds : late_cycles[l] = 0

(* The first loop thread in a cycle it began after stop() had set the      *)
(* event, beside the loop thread of a later start().                       *)
C27_Witness ==
    /\ signaled[1]
    /\ late_cycles[1] = 1
    /\ loops[1] = "body"
    /\ Alive(2)

(* C28: when a stop() that found the pipeline running returns, no loop     *)
(* thread and no acquisition thread of any camera of the pipeline is       *)
(* alive, and no device is open.                                           *)
C28_AsClaimed ==
    (stop_returns > 0 /\ life_ev.was_running) =>
        (~life_ev.loop_alive /\ ~life_ev.cam_alive /\ ~life_ev.device_open)

(* stop() has returned, and the loop thread it waited for has since        *)
(* replaced the camera: a thread and a device that nothing will close.     *)
C28_Witness ==
    /\ stop_returns > 0
    /\ life_ev.was_running
    /\ life_ev.loop_alive
    /\ caller_pc = "idle"
    /\ ~running
    /\ \A l \in LoopIds : ~Alive(l)
    /\ cams[camera] = NewCam
    /\ camera # 1

(* C30: at most one loop thread is alive at any time.                      *)
C30_AsClaimed ==
    Cardinality({l \in LoopIds : Alive(l)}) <= 1

(* Two loop threads in the body of a cycle at once.                        *)
C30_Witness ==
    /\ loops[1] = "body"
    /\ loops[2] = "body"

(***************************************************************************)
(* The guidance of one tool over a time long enough for a classification   *)
(* to outlast the dwell window: marker 1 in any geometry or absent, the    *)
(* other markers absent.                                                   *)
(***************************************************************************)
MaxDwellTime == 900

DwellAnchors == {a \in Anchors : \A id \in MarkerIds \ {1} : IsAbsent(a[id])}

NextDwell ==
    \E ar_anchors \in DwellAnchors : \E gap \in GuideGaps :
        BuildToolGuidanceUntil(ar_anchors, gap, MaxDwellTime)

SpecDwell == InitGuide /\ [][NextDwell]_vars

(* C31: when a call classifies a tool's marker differently from its        *)
(* reported state, and the marker has been classified that way in every    *)
(* call for longer than the 250 ms dwell window, the reported state        *)
(* becomes that classification.                                            *)
C31_AsClaimed ==
    [][\A id \in ToolIds :
          (/\ raw_last'[id] # "none"
           /\ aruco_last_state[id] # "none"
           /\ raw_last'[id] # aruco_last_state[id]
           /\ now' - raw_since'[id] > DEBOUNCE_MS)
          => aruco_last_state'[id] = raw_last'[id]]_vars

(* A marker first seen GOOD, classified ALIGNING in the three calls since, *)
(* over 400 ms, and still reported GOOD.                                   *)
C31_Witness ==
    /\ Len(raw_hist[1]) = 3
    /\ \A i \in 1..3 : raw_hist[1][i].raw = "ALIGNING"
    /\ raw_hist[1][3].t - raw_hist[1][1].t > DEBOUNCE_MS
    /\ raw_last[1] = "ALIGNING"
    /\ now - raw_since[1] > DEBOUNCE_MS
    /\ aruco_last_state[1] = "GOOD"
    /\ aruco_state_since[1] = <<>>

(* C32: a tool's marker that the latest call saw without a resolvable      *)
(* target got the neutral locator, ring and Find badge, and nothing else.  *)
C32_AsClaimed ==
    \A id \in ToolIds : raw_last[id] = "SEARCHING" => guide_shapes[id] = Locator

(* A marker reported ALIGNING from its first sighting, seen without target *)
(* in the latest call: no shape at all was built for it.                   *)
C32_Witness ==
    \E id \in ToolIds :
        /\ raw_last[id] = "SEARCHING"
        /\ aruco_last_state[id] = "ALIGNING"
        /\ guide_shapes[id] = {}

(***************************************************************************)
(* The governor over a long run: cycles of any latency early on, then      *)
(* cycles below 180 ms only, for long enough to relax from the highest     *)
(* strides and the smallest width.  The loop keeps cycling (weak           *)
(* fairness); the settings do not change.                                  *)
(***************************************************************************)
MaxQuietTime == 40000
NoisyUntil == 1800
QuietLatencies == {100, 179}
NoisyLatencies == {180, 1201}
QuietCycleTimes == {1600, 3100}
WIDTH_CAP == 1280

NextQuiet ==
    \/ \E e2e_ms \in QuietLatencies : \E cycle_ms \in QuietCycleTimes :
           AdaptPerformanceUntil(e2e_ms, cycle_ms, MaxQuietTime)
    \/ /\ now <= NoisyUntil
       /\ \E e2e_ms \in NoisyLatencies : \E cycle_ms \in QuietCycleTimes :
              AdaptPerformanceUntil(e2e_ms, cycle_ms, MaxQuietTime)

SpecQuiet == InitGov /\ [][NextQuiet]_vars /\ WF_vars(NextQuiet)

(* C33: a stride is lowered only by a run whose latency is below 180 ms    *)
(* and that comes at least 3000 ms after the last adaptation; the run is   *)
(* then the last adaptation itself, and the time of the last adaptation    *)
(* never goes back, so two decreases are at least 3000 ms apart.           *)
C33_DecreasesApart ==
    [][/\ StrideDecreases =>
              /\ latency_ms' < RELAX_BELOW_MS
              /\ now' - perf_last_adapt_ns >= RELAX_AFTER_MS
              /\ perf_last_adapt_ns' = now'
       /\ perf_last_adapt_ns' >= perf_last_adapt_ns]_vars

(* The face stride lowered for the second time after an escalation to 8.   *)
C33_Witness ==
    /\ ev.op = "adapt_performance"
    /\ gov_prev.face = 7
    /\ face_frame_stride = 6
    /\ perf_last_adapt_ns = now

\* the run took the relaxation branch
RelaxationRun ==
    /\ GovernorRun
    /\ latency_ms' < RELAX_BELOW_MS
    /\ now' - perf_last_adapt_ns > RELAX_AFTER_MS

(* C34: a relaxation run lowers each stride by at most one step and makes  *)
(* the face width 1.25 times what it was, but not more than the width the  *)
(* pipeline was constructed with.                                          *)
C34_AsClaimed ==
    [][RelaxationRun =>
          /\ face_frame_stride' >= face_frame_stride - 1
          /\ aruco_frame_stride' >= aruco_frame_stride - 1
          /\ face_target_w' = Min(camera_width, (face_target_w * 125) \div 100)]_vars

(* A pipeline constructed 320 wide whose relaxation run made the face      *)
(* width 400.                                                              *)
C34_Witness ==
    /\ ev.op = "adapt_performance"
    /\ camera_width = 320
    /\ gov_prev.w = 320
    /\ face_target_w = 400

AtRest ==
    /\ face_frame_stride = 1
    /\ aruco_frame_stride = Max(2, aruco_stride)
    /\ face_target_w = WIDTH_CAP

(* C35: when from some cycle on every latency is below 180 ms, the face    *)
(* stride comes back to 1, the fiducial stride to max(2, baseline) and the *)
(* face width to its cap of 1280, and they stay there.                     *)
C35_ComesToRest ==
    (<>[](latency_ms < RELAX_BELOW_MS)) => <>[]AtRest

(* At rest after an escalation to the highest strides.                     *)
C35_Witness ==
    /\ AtRest
    /\ ev.op = "adapt_performance"
    /\ gov_prev.face = 2
    /\ gov_prev.w < WIDTH_CAP
    /\ now > 30000

(***************************************************************************)
(* The remote result in the processing cycle.  A cycle of _run first       *)
(* collects the finished job (_resolve_cloud_future, line 278), later      *)
(* reads settings.use_cloud and the client's enabled flag (line 390),      *)
(* takes the held result if it is not stale (_active_cloud_result), merges *)
(* it and submits the next job (_submit_cloud_job).  The job is the        *)
(* client's detect_faces, run by the executor's one worker: the call entry *)
(* and the passes of the retry loop are the client's steps.  A cycle is    *)
(* one step here; the interleaving of the loop with stop() is the subject  *)
(* of the pipeline's own specification above.                              *)
(***************************************************************************)
CLOUD_RESULT_TTL_MS == 1500

MaxCloudTime == 6300

CloudGaps == {400, 1600}

\* what the camera shows: one scene, and for a while at the start a second
\* one under another light (another cache key)
SteadyImages == {Jpeg(1, 10, TRUE)}

EarlyImages == {Jpeg(1, 30, FALSE)}

EarlyUntil == 700

ActiveCloudResultForever(latest, t) == latest

\* _active_cloud_result at time t, for the held result latest
ActiveCloudResult(latest, t) ==
    IF latest.isNone THEN NoneResult
    ELSE IF latest.ts_ns > 0 /\ t - latest.ts_ns > CLOUD_RESULT_TTL_MS THEN NoneResult
    ELSE latest

LatestReplaced(result, held) == result

\* _resolve_cloud_future, lines 963-968: a result that is not None becomes
\* _cloud_latest, None (returned, or in place of an exception) leaves it
Latest(result, held) == IF ~result.isNone THEN result ELSE held

Queued(img) == [state |-> "queued", img |-> img, ret |-> NoneResult, how |-> "none"]

\* one cycle of _run, gap ms after the previous step, on a frame whose
\* region of interest encodes to img.  The executor's worker is idle
\* whenever a job is submitted (the future is cleared only once it is done),
\* so it has taken the job by the time the next cycle starts.
CloudCycle(gap, img) ==
    /\ now + gap <= MaxCloudTime
    /\ cloud_job.state # "queued"
    /\ now' = now + gap
    /\ LET done == cloud_job.state \in {"returned", "raised"}
           result == IF cloud_job.state = "returned" THEN cloud_job.ret ELSE NoneResult
           latest == IF done THEN Latest(result, cloud_result) ELSE cloud_result
           job == IF done THEN NoJob ELSE cloud_job
           use == use_cloud /\ enabled
       IN  /\ cloud_result' = (IF use THEN latest ELSE NoneResult)
           /\ cloud_job' = (IF use /\ cloud_executor /\ job.state = "none"
                            THEN Queued(img) ELSE job)
           /\ cycle_ev' = [use |-> use,
                           collected |-> IF done THEN cloud_job.state ELSE "none",
                           how |-> IF done THEN cloud_job.how ELSE "none",
                           held |-> ~latest.isNone,
                           stale |-> /\ ~latest.isNone
                                     /\ now' - latest.ts_ns > CLOUD_RESULT_TTL_MS,
                           merged |-> use /\ ~ActiveCloudResult(latest, now').isNone]
    /\ UNCHANGED <<clientVars, ev, accepted, pipeVars, govVars, sideVars>>

\* the worker calls detect_faces with the job's image
WorkerCall ==
    /\ cloud_job.state = "queued"
    /\ DetectFacesCall(cloud_job.img)
    /\ cloud_job' = (IF pc' = "net" THEN [cloud_job EXCEPT !.state = "running"]
                     ELSE [cloud_job EXCEPT !.state = "returned", !.ret = ev'.ret,
                                            !.how = ev'.kind])
    /\ UNCHANGED <<cloud_result, cycle_ev>>

\* a pass of the retry loop of the worker's call
WorkerAttempt(responds, rtt) ==
    /\ cloud_job.state = "running"
    /\ NetAttemptCall(responds, rtt)
    /\ cloud_job' = (IF pc' = "idle"
                     THEN [cloud_job EXCEPT !.state = "returned", !.ret = ev'.ret,
                                            !.how = ev'.kind]
                     ELSE cloud_job)
    /\ UNCHANGED <<cloud_result, cycle_ev>>

\* detect_faces raises: the statement between the rate limiter and the
\* retry loop (line 129) is not inside the try; the slot stays reserved and
\* neither _register_success nor _register_failure runs
WorkerRaises ==
    /\ cloud_job.state = "running"
    /\ pc = "net"
    /\ call_attempts = 0
    /\ pc' = "idle"
    /\ attempt' = 0
    /\ call_key' = NoKey
    /\ call_face' = FALSE
    /\ ev' = Event("detect_faces", "raised", NoneResult, cloud_job.img)
    /\ cloud_job' = [cloud_job EXCEPT !.state = "raised", !.how = "raised"]
    /\ UNCHANGED <<now, enabled, rps, min_interval_ms, ok_count, fail_count, breaker_open,
                   consecutive_failures, breaker_until_ns, call_times, last_call_ns,
                   cache, call_attempts, opened_at, fail_streak, accepted_calls, lru,
                   accepted, pipeVars, govVars, sideVars, cloud_result, cycle_ev>>

InitCloudSpec ==
    /\ now = StartTime
    /\ enabled \in BOOLEAN
    /\ InitClient(DEFAULT_RPS, DEFAULT_MIN_INTERVAL_MS)
    /\ use_cloud \in BOOLEAN
    /\ InitPipeline
    /\ InitRest
    /\ InitGovernor(APP_CAMERA_WIDTH, DEFAULT_ARUCO_STRIDE)

NextCloud ==
    \/ \E gap \in CloudGaps : \E img \in SteadyImages : CloudCycle(gap, img)
    \/ /\ now <= EarlyUntil
       /\ \E gap \in CloudGaps : \E img \in EarlyImages : CloudCycle(gap, img)
    \/ WorkerCall
    \/ \E responds \in BOOLEAN : \E rtt \in Rtts : WorkerAttempt(responds, rtt)
    \/ WorkerRaises
    \/ \E b \in BOOLEAN : SetUseCloud(b)

SpecCloud == InitCloudSpec /\ [][NextCloud]_vars

(***************************************************************************)
(* C39: a remote result is merged into a cycle's landmarks only if         *)
(* use_cloud and the client's enabled flag were set when the cycle read    *)
(* them and the held result is no older than the 1.5 s TTL, its age being  *)
(* the time of the cycle minus its ts_ns; a held result older than that is *)
(* not merged, whichever gate of detect_faces returned it.                 *)
(***************************************************************************)
C39_FreshAndEnabledOnly ==
    /\ cycle_ev.merged => (cycle_ev.use /\ cycle_ev.held /\ ~cycle_ev.stale)
    /\ cycle_ev.stale => ~cycle_ev.merged

(***************************************************************************)
(* C39 witness: with cloud use enabled a cycle has collected a result that *)
(* detect_faces returned from its content cache, with the timestamp of the *)
(* response it was stored with, more than 1.5 s old: it is held and was    *)
(* not merged.                                                             *)
(***************************************************************************)
C39_Witness ==
    /\ cycle_ev.use
    /\ cycle_ev.collected = "returned"
    /\ cycle_ev.how = "cached"
    /\ ~cloud_result.isNone
    /\ now - cloud_result.ts_ns > CLOUD_RESULT_TTL_MS
    /\ ~cycle_ev.merged

(***************************************************************************)
(* Steps the formulas of C40 name.  JobCall: the worker calls              *)
(* detect_faces.  Refused: the breaker is open and within its cooldown.    *)
(* Rejected: the breaker lets the call pass, no fresh result is cached for *)
(* its image and the rate limiter has no slot.  CollectsRaised: a cycle    *)
(* collects a job that ended with an exception.                            *)
(***************************************************************************)
JobCall == cloud_job.state = "queued" /\ cloud_job'.state # "queued"

Refused == InCooldown

Rejected == ~InCooldown /\ ~HeldFresh(cloud_job.img) /\ ~LimiterAdmits

CollectsRaised == cloud_job.state = "raised" /\ cloud_job'.state # "raised"

C40_SilentlyDropped ==
    (JobCall /\ (Refused \/ Rejected))
        => /\ cloud_job'.state = "returned"
           /\ cloud_job'.ret = NoneResult
           /\ ok_count' = ok_count
           /\ fail_count' = fail_count

(***************************************************************************)
(* C40 as claimed.  A call refused by the breaker or rejected by the rate  *)
(* limiter returns None, raises nothing and leaves ok_count and fail_count *)
(* as they were; the cycle that collects a job that raised runs to its end *)
(* with local landmarks only.                                              *)
(***************************************************************************)
C40_AsClaimed ==
    [][/\ C40_SilentlyDropped
       /\ CollectsRaised => ~cycle_ev'.merged]_vars

(***************************************************************************)
(* C40 (as amended).  A call refused by the breaker or rejected by the     *)
(* rate limiter returns None, raises nothing and leaves ok_count and       *)
(* fail_count as they were; the cycle that collects a job that raised runs *)
(* to its end, takes nothing from that job and leaves the result held      *)
(* before as it was (or drops it, cloud use being off): it merges a remote *)
(* result only when an earlier one is held and within its TTL.             *)
(***************************************************************************)
C40_AbsorbedFailure ==
    [][/\ C40_SilentlyDropped
       /\ CollectsRaised
              => /\ cycle_ev'.collected = "raised"
                 /\ cloud_result' = (IF cycle_ev'.use THEN cloud_result ELSE NoneResult)
                 /\ cycle_ev'.merged
                        => /\ ~cloud_result.isNone
                           /\ now' - cloud_result.ts_ns <= CLOUD_RESULT_TTL_MS]_vars

(***************************************************************************)
(* C40 witness: a cycle has collected a job that raised and has merged the *)
(* result of an earlier call, still held and fresh.                        *)
(***************************************************************************)
C40_Witness ==
    /\ cycle_ev.collected = "raised"
    /\ cycle_ev.merged
    /\ ~cloud_result.isNone

====
